---- MODULE Spec2Model ----
(***************************************************************************)
(* Model of the analytics service (magebase/analytics).                    *)
(*                                                                         *)
(* The components are modelled each with its own specification because    *)
(* they share no state (the admission-control structures are owned by the  *)
(* middleware, the event store by AnalyticsService, the registry and the   *)
(* loops by KafkaConsumerService):                                         *)
(*   SpecService  AnalyticsService.TrackEvent / TrackAPIUsage with the     *)
(*                SchemaValidator and the BillingClient                    *)
(*   SpecLimiter  RateLimiter under its sync.RWMutex                       *)
(*   SpecPairs    RateLimiter called for ids that hold a ':'               *)
(*   SpecValidator a SchemaValidator with schemas registered on it         *)
(*   SpecSampler  RequestSampler                                           *)
(*   SpecUsage    AnalyticsService.GetUsage over the stored events         *)
(*   SpecStore    AnalyticsService called by two goroutines at once        *)
(*   SpecRouter   KafkaConsumerService: two callers, two topics            *)
(*   SpecDispatch KafkaConsumerService: every kind of message, one topic   *)
(*   SpecHandlers KafkaConsumerService: failing handlers, shutdown, under  *)
(*                fair scheduling                                          *)
(*                                                                         *)
(* Conventions.  A Go string is a TLA+ string, "" is the empty string.     *)
(* An interface{} value of a payload is a record [k |-> kind, v |-> text]  *)
(* where kind is the dynamic Go type.  uuid.New().String() is the string   *)
(* "uuid-<n>" for a fresh n.  time.Now() is the integer clock `now`.       *)
(***************************************************************************)
EXTENDS Integers, Sequences, FiniteSets, TLC

VARIABLES
  events,      \* AnalyticsService.events: event id -> AnalyticsEvent
  uuids,       \* number of uuids generated so far
  now,         \* the wall clock read by time.Now()
  svc,         \* per caller: the AnalyticsService call in progress
  requests,    \* RateLimiter.requests: key -> timestamps, oldest first
  limit,       \* RateLimiter.limit
  window,      \* RateLimiter.window
  mutex,       \* RateLimiter.mutex: the writer and the readers holding it
  rl,          \* per goroutine: the RateLimiter call in progress
  crashed,     \* the Go runtime has aborted the process (fatal error)
  admitted,    \* history: key -> times of the admitted calls since the last Reset
  stable,      \* history: limit and window have not changed since those calls
  sampleRates, \* RequestSampler.sampleRates: endpoint -> rate, in 1/10000
  rand,        \* RequestSampler.rand: the state of the random source
  slast,       \* the last RequestSampler call and what it returned
  sref,        \* history: one earlier ShouldSample call, kept for comparison
  sothers,     \* history: a ShouldSample call unlike sref was made after it
  usage,       \* the last GetUsage call and what it returned
  registered,  \* SchemaValidator.schemas: the schemas registered since construction
  vlast,       \* the last call of that SchemaValidator and what it returned
  running,     \* KafkaConsumerService.running
  ctxDone,     \* KafkaConsumerService.ctx has been cancelled
  closes,      \* number of calls of s.consumer.Close()
  starts,      \* number of Start() calls that found the router stopped
  handlers,    \* KafkaConsumerService.handlers: event type -> handler
  kmu,         \* KafkaConsumerService.mu: the caller holding it exclusively
  kcall,       \* per caller: the router call in progress or last made
  loops,       \* per Start() and topic: the consumeTopic goroutine
  broker,      \* per topic: the messages of partition 0, oldest first
  topics,      \* KafkaConsumerService.topics
  invocations, \* the handler goroutines, in the order they were started
  taken,       \* history: per message, how often a loop received it
  kuuids       \* number of correlation ids generated so far

svcVars == <<events, uuids, svc>>

rlVars == <<requests, limit, window, mutex, rl, crashed, admitted, stable>>

smVars == <<sampleRates, rand, slast, sref, sothers>>

usVars == <<usage>>

valVars == <<registered, vlast>>

kVars == <<running, ctxDone, closes, starts, handlers, kmu, kcall, loops, broker, topics,
           invocations, taken, kuuids>>

(***************************************************************************)
(* Bounds                                                                  *)
(***************************************************************************)
MaxUuids == 6       \* uuids generated in one run (three per stored event)
MaxTime  == 2       \* last clock value
MaxSeed  == 2       \* seeds of the sampler's random source: 0..MaxSeed
MaxEvents == 3      \* events stored in one run of the usage specification
MaxMsgs  == 2       \* messages the broker holds, over all topics

(***************************************************************************)
(* Dynamic values of a map[string]interface{}                              *)
(***************************************************************************)
Absent  == [k |-> "absent",  v |-> ""]      \* the key is not in the map
Str(s)  == [k |-> "string",  v |-> s]
IntV(s) == [k |-> "int",     v |-> s]
F64(s)  == [k |-> "float64", v |-> s]
MapV(s) == [k |-> "map",     v |-> s]       \* map[string]interface{}

PayloadFields == {"event_type", "user_id", "page", "properties"}

\* The payloads the callers send: every combination of these field values.
RawPayloads ==
  [ event_type : {Absent, Str("page_view"), Str("click"), IntV("123")},
    user_id    : {Absent, Str("u1"), IntV("7")},
    page       : {Absent, Str("/home")},
    properties : {Absent, MapV("referrer"), Str("x")} ]

MakePayload(r) == [f \in {g \in PayloadFields : r[g] # Absent} |-> r[f]]

\* Payloads that bring keys the service would otherwise fill in: all of
\* them, one of them, and one of a type the schema rejects.
SuppliedPayloads ==
  { [event_type |-> Str("page_view"), user_id |-> Str("u1"),
     timestamp  |-> Str("2024-01-01T00:00:00Z"), session_id |-> Str("s-1"),
     ip_address |-> Str("10.0.0.1"), user_agent |-> Str("curl/8"),
     source     |-> Str("web"), properties |-> MapV("referrer")],
    [event_type |-> Str("click"), user_id |-> Str("u1"), session_id |-> Str("s-1")],
    [event_type |-> Str("page_view"), user_id |-> Str("u1"), session_id |-> IntV("5")] }

Payloads == {MakePayload(r) : r \in RawPayloads} \cup SuppliedPayloads

Has(m, f) == f \in DOMAIN m

Get(m, f) == IF Has(m, f) THEN m[f] ELSE Absent

UserIDs == {"u1", "u2"}
APIKeys == {"test-api-key"}
Callers == {"c1", "c2"}

(***************************************************************************)
(* SchemaValidator                                                         *)
(***************************************************************************)
SchemaFields == {"event_type", "user_id", "page", "properties", "session_id",
                 "ip_address", "amount", "currency"}

PageViewTypes ==
  [f \in {"event_type", "user_id", "page", "properties", "session_id", "ip_address"} |->
     IF f = "properties" THEN "map" ELSE "string"]

ConversionTypes ==
  [f \in {"event_type", "user_id", "page", "properties", "amount", "currency"} |->
     IF f = "properties" THEN "map" ELSE IF f = "amount" THEN "float64" ELSE "string"]

\* registerDefaultSchemas: CustomRules maps a field to the literal it must equal.
schemas ==
  [ page_view  |-> [RequiredFields |-> <<"event_type", "user_id">>,
                    FieldTypes     |-> PageViewTypes,
                    CustomRules    |-> [f \in {"event_type"} |-> "page_view"]],
    conversion |-> [RequiredFields |-> <<"event_type", "user_id">>,
                    FieldTypes     |-> ConversionTypes,
                    CustomRules    |-> [f \in {"event_type"} |-> "conversion"]],
    generic    |-> [RequiredFields |-> <<"event_type", "user_id">>,
                    FieldTypes     |-> PageViewTypes,
                    CustomRules    |-> [f \in {} |-> ""]] ]

Ok == [kind |-> "ok", field |-> ""]

Err(kind, field) == [kind |-> kind, field |-> field]

\* validateRequiredFields: the slice is walked in order, the first missing field wins.
validateRequiredFields(eventData, requiredFields) ==
  LET missing == {i \in 1..Len(requiredFields) : ~Has(eventData, requiredFields[i])}
  IN  IF missing = {} THEN Ok
      ELSE Err("missing_field",
               requiredFields[CHOOSE i \in missing : \A j \in missing : i <= j])

\* validateFieldType: TRUE iff the value has the declared type.
validateFieldType(value, expectedType) ==
  CASE expectedType = "string"  -> value.k = "string"
    [] expectedType = "float64" -> value.k = "float64"
    [] expectedType = "map"     -> value.k = "map"
    [] expectedType = "array"   -> value.k = "array"
    [] OTHER                    -> value.k # "nil"

\* validateFieldTypes ranges over a Go map: any offending field may be reported.
validateFieldTypes(eventData, fieldTypes) ==
  LET bad == {f \in DOMAIN fieldTypes :
                Has(eventData, f) /\ ~validateFieldType(eventData[f], fieldTypes[f])}
  IN  IF bad = {} THEN {Ok} ELSE {Err("wrong_type", f) : f \in bad}

\* applyCustomRules: the default rules accept every non-string value.
applyCustomRules(eventData, customRules) ==
  LET bad == {f \in DOMAIN customRules :
                /\ Has(eventData, f)
                /\ eventData[f].k = "string"
                /\ eventData[f].v # customRules[f]}
  IN  IF bad = {} THEN {Ok} ELSE {Err("custom_rule", f) : f \in bad}

ValidateEvent_RequiredOnly(eventData) ==
  {validateRequiredFields(eventData, schemas["generic"].RequiredFields)}

\* ValidateEvent on a validator whose s.schemas is registry: the set of
\* results the call can return for eventData.
ValidateEventOn(registry, eventData) ==
  IF Get(eventData, "event_type").k # "string"
  THEN {Err("event_type_required", "event_type")}
  ELSE LET eventType == eventData["event_type"].v
           schema == IF eventType \in DOMAIN registry
                     THEN registry[eventType] ELSE registry["generic"]
           req == validateRequiredFields(eventData, schema.RequiredFields)
           typ == validateFieldTypes(eventData, schema.FieldTypes)
       IN  IF req # Ok THEN {req}
           ELSE IF typ # {Ok} THEN typ
           ELSE applyCustomRules(eventData, schema.CustomRules)

\* ValidateEvent on the validator of the AnalyticsService, which holds the
\* default schemas: nothing registers a schema on it.
ValidateEvent(eventData) == ValidateEventOn(schemas, eventData)

\* The sequences that hold every element of the set S once.
Orderings(S) ==
  {q \in [1..Cardinality(S) -> S] : \A i, j \in 1..Cardinality(S) : q[i] = q[j] => i = j}

\* GetValidationErrors on a validator whose s.schemas is registry: the lists
\* the call can return.  The required fields are walked in the order of the
\* slice, the field types in the order of a Go map, which is any order.
GetValidationErrors(registry, eventData) ==
  IF Get(eventData, "event_type").k # "string"
  THEN {<<Err("event_type_required", "event_type")>>}
  ELSE LET eventType == eventData["event_type"].v
           schema == IF eventType \in DOMAIN registry
                     THEN registry[eventType] ELSE registry["generic"]
           required == schema.RequiredFields
           missing == SelectSeq(required, LAMBDA f : ~Has(eventData, f))
           bad == {f \in DOMAIN schema.FieldTypes :
                     Has(eventData, f)
                       /\ ~validateFieldType(eventData[f], schema.FieldTypes[f])}
       IN  {[i \in 1..(Len(missing) + Len(q)) |->
               IF i <= Len(missing) THEN Err("missing_field", missing[i])
               ELSE Err("wrong_type", q[i - Len(missing)])] : q \in Orderings(bad)}

(***************************************************************************)
(* A SchemaValidator of its own (NewSchemaValidator), on which schemas are *)
(* registered after construction.  s.schemas is the default schemas with   *)
(* the schema of every event type in `registered` replaced by it.          *)
(***************************************************************************)
\* Event types under which a schema is registered.
RegisteredTypes == {"click", "page_view"}

\* Schemas that are registered: one that requires the page, and one whose
\* custom rule, like the default ones, demands a literal of a string field.
RegisteredSchemas ==
  { [RequiredFields |-> <<"event_type", "user_id", "page">>,
     FieldTypes     |-> PageViewTypes,
     CustomRules    |-> [f \in {} |-> ""]],
    [RequiredFields |-> <<"event_type", "user_id">>,
     FieldTypes     |-> PageViewTypes,
     CustomRules    |-> [f \in {"user_id"} |-> "admin"]] }

\* s.schemas of the validator.
SchemasOf(reg) ==
  [t \in DOMAIN schemas \cup DOMAIN reg |-> IF t \in DOMAIN reg THEN reg[t] ELSE schemas[t]]

\* No call yet.  A call's record keeps its argument and, in schemas, what the
\* validator had registered when it was made.
NoValidation ==
  [op |-> "none", schemas |-> [t \in {} |-> 0], eventData |-> [f \in {} |-> Absent],
   err |-> Ok, errors |-> <<>>]

\* NewSchemaValidator: the default schemas only.
InitValidator ==
  /\ registered = [t \in {} |-> 0]
  /\ vlast = NoValidation

\* RegisterSchema: s.schemas[eventType] = schema.
RegisterSchema(eventType, schema) ==
  /\ registered' = [t \in DOMAIN registered \cup {eventType} |->
                      IF t = eventType THEN schema ELSE registered[t]]
  /\ UNCHANGED <<vlast, now, svcVars, rlVars, smVars, usVars, kVars>>

\* A call of ValidateEvent.
SV_ValidateEvent(eventData) ==
  /\ \E res \in ValidateEventOn(SchemasOf(registered), eventData) :
       vlast' = [NoValidation EXCEPT !.op = "ValidateEvent", !.schemas = registered,
                                     !.eventData = eventData, !.err = res]
  /\ UNCHANGED <<registered, now, svcVars, rlVars, smVars, usVars, kVars>>

\* A call of GetValidationErrors.
SV_GetValidationErrors(eventData) ==
  /\ \E errors \in GetValidationErrors(SchemasOf(registered), eventData) :
       vlast' = [NoValidation EXCEPT !.op = "GetValidationErrors", !.schemas = registered,
                                     !.eventData = eventData, !.errors = errors]
  /\ UNCHANGED <<registered, now, svcVars, rlVars, smVars, usVars, kVars>>

NextValidator ==
  \/ \E t \in RegisteredTypes, schema \in RegisteredSchemas : RegisterSchema(t, schema)
  \/ \E p \in Payloads : SV_ValidateEvent(p)
  \/ \E p \in Payloads : SV_GetValidationErrors(p)

(***************************************************************************)
(* BillingClient                                                           *)
(***************************************************************************)
\* What one POST to the billing service can end in.
PostOutcomes == {"created", "other_status", "transport_error"}

\* TrackUsage / TrackEvent of the client: nil only on HTTP 201.
TrackUsage(outcome) == IF outcome = "created" THEN "nil" ELSE "error"

TrackBillingEvent(outcome) == IF outcome = "created" THEN "nil" ELSE "error"

\* TrackAPICall: the POSTs it sends, in order, with the result of each.
TrackAPICallPosts(usageOutcome, eventOutcome) ==
  IF TrackUsage(usageOutcome) # "nil"
  THEN <<[post |-> "usage", result |-> TrackUsage(usageOutcome)]>>
  ELSE <<[post |-> "usage", result |-> TrackUsage(usageOutcome)],
         [post |-> "event", result |-> TrackBillingEvent(eventOutcome)]>>

\* TrackAPICall: the usage record first, the billing event only after it succeeded.
TrackAPICall(usageOutcome, eventOutcome) ==
  IF TrackUsage(usageOutcome) # "nil" THEN "usage_failed"
  ELSE IF TrackBillingEvent(eventOutcome) # "nil" THEN "event_failed"
  ELSE "nil"

(***************************************************************************)
(* AnalyticsService                                                        *)
(***************************************************************************)
UuidString(n) == "uuid-" \o ToString(n)

\* The zero AnalyticsEvent; a call record's event is meaningful iff ~isNil.
NoEvent ==
  [ID |-> "", EventType |-> "", UserID |-> "", Page |-> "", Properties |-> "",
   Timestamp |-> 0, APIKey |-> "", BillingEventID |-> ""]

NoBillingEvent ==
  [ID |-> "", UserID |-> "", EventType |-> "", Amount |-> 0, Currency |-> ""]

EmptyPayload == [f \in {} |-> Absent]

\* A caller that is not inside a call.  The fields eventData, userID, endpoint
\* and method keep the arguments of the call for the properties below, and
\* posts the POSTs the billing client sent for it.  While a caller writes or
\* scans the event map, raced tells whether another access to the map has
\* overlapped it, and seen holds the ids that were in the map when its scan began.
\* callerMap is what the map the caller passed as eventData holds once the
\* call has run, and enriched the map TrackEvent built its event from.
Idle ==
  [op |-> "none", pc |-> "idle", eventData |-> EmptyPayload, callerMap |-> EmptyPayload,
   enriched |-> EmptyPayload, userID |-> "",
   endpoint |-> "", method |-> "",
   event |-> NoEvent, isNil |-> TRUE, err |-> Ok, billing |-> "none",
   posts |-> <<>>, billingEvent |-> NoBillingEvent,
   start |-> "", end |-> "", seen |-> {}, raced |-> FALSE]

\* enrichEventData: a copy of eventData with defaults for the absent keys.
enrichEventData(eventData, t, sessionUuid) ==
  LET defaults ==
        [ timestamp  |-> [k |-> "time", v |-> ToString(t)],
          session_id |-> Str("sess_" \o sessionUuid),
          ip_address |-> Str("127.0.0.1"),
          user_agent |-> Str("Mozilla/5.0 (compatible; AnalyticsService/1.0)"),
          source     |-> Str("api"),
          properties |-> MapV("") ]
  IN  [f \in DOMAIN eventData \cup DOMAIN defaults |->
         IF Has(eventData, f) THEN eventData[f] ELSE defaults[f]]

\* A call that fills the defaults into the map it was given.
enrichEventDataMaps_InPlace(eventData, t, sessionUuid) ==
  [eventData |-> enrichEventData(eventData, t, sessionUuid),
   enriched  |-> enrichEventData(eventData, t, sessionUuid)]

\* The two maps after enrichEventData: the map of the caller, which lines
\* 206-209 only range over, and the map made at line 205, which takes every
\* write and is returned.
enrichEventDataMaps(eventData, t, sessionUuid) ==
  [eventData |-> eventData,
   enriched  |-> enrichEventData(eventData, t, sessionUuid)]

getStringValue(eventData, key) ==
  IF Get(eventData, key).k = "string" THEN eventData[key].v ELSE ""

\* getMapValue: the map under key, an empty map when there is none.
getMapValue(eventData, key) ==
  IF Get(eventData, key).k = "map" THEN eventData[key].v ELSE ""

\* calculateAPICallCost, in units of $0.0001.
calculateAPICallCost(endpoint, method) ==
  LET baseCost == 1
      byEndpoint == CASE endpoint = "/api/v1/analytics/events"    -> 2
                      [] endpoint = "/api/v1/funnels/:id/compute" -> 10
                      [] endpoint = "/api/v1/heatmaps/generate"   -> 20
                      [] OTHER -> 0
      byMethod == IF method \in {"POST", "PUT", "DELETE"} THEN 1 ELSE 0
  IN  baseCost + byEndpoint + byMethod

NewEvent_UserFromPayload(enriched, apiKey, userID, id, t) ==
  [ID             |-> id,
   EventType      |-> enriched["event_type"].v,
   UserID         |-> getStringValue(enriched, "user_id"),
   Page           |-> getStringValue(enriched, "page"),
   Properties     |-> getMapValue(enriched, "properties"),
   Timestamp      |-> t,
   APIKey         |-> apiKey,
   BillingEventID |-> ""]

\* TrackEvent, lines 39-47: the event built from the enriched data.
NewEvent(enriched, apiKey, userID, id, t) ==
  [ID             |-> id,
   EventType      |-> enriched["event_type"].v,
   UserID         |-> userID,
   Page           |-> getStringValue(enriched, "page"),
   Properties     |-> getMapValue(enriched, "properties"),
   Timestamp      |-> t,
   APIKey         |-> apiKey,
   BillingEventID |-> ""]

BillingEventIDAfter_EmptyOnFailure(billingResult, freshUuid) ==
  IF billingResult # "nil" THEN "" ELSE UuidString(freshUuid)

\* TrackEvent, lines 57-65: the billing-event id assigned once TrackAPICall
\* has returned; both branches generate a fresh id.
BillingEventIDAfter(billingResult, freshUuid) ==
  IF billingResult # "nil" THEN UuidString(freshUuid) ELSE UuidString(freshUuid)

\* TrackEvent, lines 29-55: validate, enrich, build the event; the caller then
\* waits for the billing client.
TE_Call(c, eventData, apiKey, userID) ==
  /\ svc[c].pc = "idle"
  /\ \E res \in ValidateEvent(eventData) :
       IF res # Ok
       THEN /\ svc' = [svc EXCEPT ![c] =
                         [Idle EXCEPT !.op = "TrackEvent", !.pc = "returned",
                                      !.eventData = eventData, !.callerMap = eventData,
                                      !.userID = userID, !.err = res]]
            /\ UNCHANGED <<events, uuids>>
       ELSE /\ uuids + 3 <= MaxUuids
            /\ LET maps == enrichEventDataMaps(eventData, now, UuidString(uuids + 1))
                   enriched == maps.enriched
                   event == NewEvent(enriched, apiKey, userID, UuidString(uuids + 2), now)
               IN  svc' = [svc EXCEPT ![c] =
                             [Idle EXCEPT !.op = "TrackEvent", !.pc = "billing",
                                          !.eventData = eventData,
                                          !.callerMap = maps.eventData,
                                          !.enriched = enriched, !.userID = userID,
                                          !.endpoint = "/api/v1/analytics/events",
                                          !.event = event, !.isNil = FALSE]]
            /\ uuids' = uuids + 2
            /\ UNCHANGED events
  /\ UNCHANGED <<now, rlVars, smVars, usVars, kVars, valVars>>

TE_Return_FailOnBilling(c, usageOutcome, eventOutcome) ==
  /\ svc[c].pc = "billing"
  /\ svc[c].op = "TrackEvent"
  /\ LET res == TrackAPICall(usageOutcome, eventOutcome)
         event == [svc[c].event EXCEPT
                     !.BillingEventID = BillingEventIDAfter(res, uuids + 1)]
     IN  IF res # "nil"
         THEN /\ svc' = [svc EXCEPT ![c].pc = "returned", ![c].event = NoEvent,
                                    ![c].isNil = TRUE, ![c].billing = res,
                                    ![c].posts = TrackAPICallPosts(usageOutcome, eventOutcome),
                                    ![c].err = Err("billing_failed", "")]
              /\ UNCHANGED <<events, uuids>>
         ELSE /\ events' = [id \in DOMAIN events \cup {event.ID} |->
                              IF id = event.ID THEN event ELSE events[id]]
              /\ svc' = [svc EXCEPT ![c].pc = "returned", ![c].event = event,
                                    ![c].posts = TrackAPICallPosts(usageOutcome, eventOutcome),
                                    ![c].billing = res]
              /\ uuids' = uuids + 1
  /\ UNCHANGED <<now, rlVars, smVars, usVars, kVars, valVars>>

\* TrackEvent, lines 57-74: the billing call returns, the event gets its
\* billing-event id, is stored under its id and returned.
TE_Return(c, usageOutcome, eventOutcome) ==
  /\ svc[c].pc = "billing"
  /\ svc[c].op = "TrackEvent"
  /\ LET res == TrackAPICall(usageOutcome, eventOutcome)
         event == [svc[c].event EXCEPT
                     !.BillingEventID = BillingEventIDAfter(res, uuids + 1)]
     IN  /\ events' = [id \in DOMAIN events \cup {event.ID} |->
                         IF id = event.ID THEN event ELSE events[id]]
         /\ svc' = [svc EXCEPT ![c].pc = "returned", ![c].event = event,
                               ![c].posts = TrackAPICallPosts(usageOutcome, eventOutcome),
                               ![c].billing = res]
         /\ uuids' = uuids + 1
  /\ UNCHANGED <<now, rlVars, smVars, usVars, kVars, valVars>>

\* TrackAPIUsage, lines 77-90: the billing client is never nil after
\* NewAnalyticsService; the caller waits for the billing client.
TU_Call(c, userID, endpoint, method) ==
  /\ svc[c].pc = "idle"
  /\ uuids + 1 <= MaxUuids
  /\ svc' = [svc EXCEPT ![c] =
               [Idle EXCEPT !.op = "TrackAPIUsage", !.pc = "billing",
                            !.userID = userID, !.endpoint = endpoint,
                            !.method = method]]
  /\ UNCHANGED <<events, uuids, now, rlVars, smVars, usVars, kVars, valVars>>

TrackAPIUsageError_Swallowed(billingResult) == Ok

\* TrackAPIUsage, lines 90-92: the error returned for the billing result.
TrackAPIUsageError(billingResult) ==
  IF billingResult # "nil" THEN Err("track_api_call_failed", "") ELSE Ok

\* TrackAPIUsage, lines 90-110: the billing call returns; on success a
\* BillingEvent is built and logged.
TU_Return(c, usageOutcome, eventOutcome) ==
  /\ svc[c].pc = "billing"
  /\ svc[c].op = "TrackAPIUsage"
  /\ LET res == TrackAPICall(usageOutcome, eventOutcome)
         err == TrackAPIUsageError(res)
     IN  IF err # Ok
         THEN /\ svc' = [svc EXCEPT ![c].pc = "returned", ![c].billing = res,
                                    ![c].posts = TrackAPICallPosts(usageOutcome, eventOutcome),
                                    ![c].err = err]
              /\ UNCHANGED uuids
         ELSE /\ svc' = [svc EXCEPT ![c].pc = "returned", ![c].billing = res,
                           ![c].posts = TrackAPICallPosts(usageOutcome, eventOutcome),
                           ![c].billingEvent =
                              [ID        |-> UuidString(uuids + 1),
                               UserID    |-> svc[c].userID,
                               EventType |-> "api_call",
                               Amount    |-> calculateAPICallCost(svc[c].endpoint,
                                                                  svc[c].method),
                               Currency  |-> "USD"]]
              /\ uuids' = uuids + 1
  /\ UNCHANGED <<events, now, rlVars, smVars, usVars, kVars, valVars>>

\* The caller has taken the result and may call again.
SvcDone(c) ==
  /\ svc[c].pc = "returned"
  /\ svc' = [svc EXCEPT ![c] = Idle]
  /\ UNCHANGED <<events, uuids, now, rlVars, smVars, usVars, kVars, valVars>>

UsageEndpoints == {"/api/v1/analytics/events", "/api/v1/analytics/usage"}
Methods == {"GET", "POST"}

\* The service specification serves one request at a time.
SeqCallers == {"c1"}

InitService ==
  /\ events = [id \in {} |-> NoEvent]
  /\ uuids = 0
  /\ svc = [c \in Callers |-> Idle]

NextService ==
  \/ \E c \in SeqCallers, p \in Payloads, k \in APIKeys, u \in UserIDs : TE_Call(c, p, k, u)
  \/ \E c \in SeqCallers, uo \in PostOutcomes, eo \in PostOutcomes : TE_Return(c, uo, eo)
  \/ \E c \in SeqCallers, u \in UserIDs, e \in UsageEndpoints, m \in Methods : TU_Call(c, u, e, m)
  \/ \E c \in SeqCallers, uo \in PostOutcomes, eo \in PostOutcomes : TU_Return(c, uo, eo)
  \/ \E c \in SeqCallers : SvcDone(c)

(***************************************************************************)
(* RateLimiter                                                             *)
(*                                                                         *)
(* Every method is called by the goroutines LProcs.  A method that takes   *)
(* the write lock is not interleaved with any other, so SetLimit,          *)
(* SetWindow and Reset are one step each and AllowRequest is two (Lock,    *)
(* then the body and Unlock).  GetRemainingRequests holds the read lock    *)
(* only, which other readers share: each of its accesses to the map is a   *)
(* step of its own.                                                        *)
(***************************************************************************)
LProcs     == {"g1", "g2"}
\* The (userID, endpoint) pairs of the calls.
LPairs == {<<"a", "c">>, <<"a:b", "c">>}

\* Pairs with a ':' in the user id and with a ':' in the endpoint.
ColonPairs == {<<"a:b", "c">>, <<"a", "b:c">>}

DefaultLimit  == 100     \* NewRateLimiter: 100 requests
DefaultWindow == 60      \* NewRateLimiter: time.Minute, in clock units

LimitChoices  == {1, 2}  \* arguments of SetLimit
WindowChoices == {1}     \* arguments of SetWindow

\* Admissions followed between two Resets: one more than the largest limit
\* set, so that a full window, a rejection and a later admission all occur.
MaxAdmits == (CHOOSE n \in LimitChoices : \A m \in LimitChoices : m <= n) + 1

Key(userID, endpoint) == userID \o ":" \o endpoint

LKeys == {Key(pr[1], pr[2]) : pr \in LPairs}

\* r.requests[key]: the nil slice for a key the map does not hold.
RequestsOf(reqs, key) == IF key \in DOMAIN reqs THEN reqs[key] ELSE <<>>

\* A purge that keeps the timestamp lying exactly one window back.
ValidRequests_Inclusive(reqTimes, t, w) ==
  SelectSeq(reqTimes, LAMBDA reqTime : reqTime >= t - w)

\* The loop of cleanupOldRequests: the timestamps after now - window.
ValidRequests(reqTimes, t, w) == SelectSeq(reqTimes, LAMBDA reqTime : reqTime > t - w)

\* cleanupOldRequests: the map after the purge of key at time t.
cleanupOldRequests(reqs, key, t, w) ==
  IF key \in DOMAIN reqs
  THEN [reqs EXCEPT ![key] = ValidRequests(reqs[key], t, w)]
  ELSE reqs

MapPut(m, key, val) == [k \in DOMAIN m \cup {key} |-> IF k = key THEN val ELSE m[k]]

LIdle == [op |-> "none", pc |-> "idle", userID |-> "", endpoint |-> "",
          t |-> 0, valid |-> <<>>, allowed |-> FALSE, remaining |-> 0]

Unlocked == [writer |-> "none", readers |-> {}]

RECURSIVE SumLen(_, _)
SumLen(f, keys) ==
  IF keys = {} THEN 0
  ELSE LET k == CHOOSE x \in keys : TRUE IN Len(f[k]) + SumLen(f, keys \ {k})

TotalAdmitted == SumLen(admitted, LKeys)

\* AllowRequest, lines 260-261: r.mutex.Lock().
AR_Lock(p, userID, endpoint) ==
  /\ ~crashed
  /\ rl[p].pc = "idle"
  /\ mutex = Unlocked
  /\ TotalAdmitted < MaxAdmits
  /\ mutex' = [mutex EXCEPT !.writer = p]
  /\ rl' = [rl EXCEPT ![p] = [LIdle EXCEPT !.op = "AllowRequest", !.pc = "ar_locked",
                                           !.userID = userID, !.endpoint = endpoint]]
  /\ UNCHANGED <<requests, limit, window, crashed, admitted, stable, now, svcVars, smVars, usVars, kVars, valVars>>

\* AllowRequest, lines 263-277: purge, compare with the limit, append, Unlock.
AR_Body(p) ==
  /\ ~crashed
  /\ rl[p].pc = "ar_locked"
  /\ LET key == Key(rl[p].userID, rl[p].endpoint)
         cleaned == cleanupOldRequests(requests, key, now, window)
     IN  IF Len(RequestsOf(cleaned, key)) >= limit
         THEN /\ requests' = cleaned
              /\ rl' = [rl EXCEPT ![p].pc = "returned", ![p].allowed = FALSE]
              /\ UNCHANGED admitted
         ELSE /\ requests' = MapPut(cleaned, key, Append(RequestsOf(cleaned, key), now))
              /\ rl' = [rl EXCEPT ![p].pc = "returned", ![p].allowed = TRUE]
              /\ admitted' = [admitted EXCEPT ![key] = Append(@, now)]
  /\ mutex' = Unlocked
  /\ UNCHANGED <<limit, window, crashed, stable, now, svcVars, smVars, usVars, kVars, valVars>>

NoAdmitted == \A k \in LKeys : admitted[k] = <<>>

\* SetLimit: Lock, r.limit = limit, Unlock.
SetLimit(n) ==
  /\ ~crashed
  /\ mutex = Unlocked
  /\ limit' = n
  /\ stable' = (stable /\ (NoAdmitted \/ n = limit))
  /\ UNCHANGED <<requests, window, mutex, rl, crashed, admitted, now, svcVars, smVars, usVars, kVars, valVars>>

\* SetWindow: Lock, r.window = window, Unlock.
SetWindow(w) ==
  /\ ~crashed
  /\ mutex = Unlocked
  /\ window' = w
  /\ stable' = (stable /\ (NoAdmitted \/ w = window))
  /\ UNCHANGED <<requests, limit, mutex, rl, crashed, admitted, now, svcVars, smVars, usVars, kVars, valVars>>

\* Reset: Lock, r.requests = make(map), Unlock.
Reset ==
  /\ ~crashed
  /\ mutex = Unlocked
  /\ requests' = [k \in {} |-> <<>>]
  /\ admitted' = [k \in LKeys |-> <<>>]
  /\ stable' = TRUE
  /\ UNCHANGED <<limit, window, mutex, rl, crashed, now, svcVars, smVars, usVars, kVars, valVars>>

\* GetRemainingRequests, lines 311-315: r.mutex.RLock(), now := time.Now().
GR_RLock(p, userID, endpoint) ==
  /\ ~crashed
  /\ rl[p].pc = "idle"
  /\ mutex.writer = "none"
  /\ mutex' = [mutex EXCEPT !.readers = @ \cup {p}]
  /\ rl' = [rl EXCEPT ![p] = [LIdle EXCEPT !.op = "GetRemainingRequests",
                                           !.pc = "gr_cleanup", !.userID = userID,
                                           !.endpoint = endpoint, !.t = now]]
  /\ UNCHANGED <<requests, limit, window, crashed, admitted, stable, now, svcVars, smVars, usVars, kVars, valVars>>

\* cleanupOldRequests, lines 281-289: read the key's slice and filter it.
GR_Read(p) ==
  /\ ~crashed
  /\ rl[p].pc = "gr_cleanup"
  /\ LET key == Key(rl[p].userID, rl[p].endpoint)
     IN  IF key \in DOMAIN requests
         THEN rl' = [rl EXCEPT ![p].pc = "gr_write",
                               ![p].valid = ValidRequests(requests[key], rl[p].t, window)]
         ELSE rl' = [rl EXCEPT ![p].pc = "gr_len"]
  /\ UNCHANGED <<requests, limit, window, mutex, crashed, admitted, stable, now, svcVars, smVars, usVars, kVars, valVars>>

\* cleanupOldRequests, line 291: r.requests[key] = validRequests, under the
\* read lock.
GR_Write(p) ==
  /\ ~crashed
  /\ rl[p].pc = "gr_write"
  /\ requests' = [requests EXCEPT ![Key(rl[p].userID, rl[p].endpoint)] = rl[p].valid]
  /\ rl' = [rl EXCEPT ![p].pc = "gr_len", ![p].valid = <<>>]
  /\ UNCHANGED <<limit, window, mutex, crashed, admitted, stable, now, svcVars, smVars, usVars, kVars, valVars>>

\* The map write of line 291 meets a map access of another holder of the
\* read lock: the runtime may detect it and abort the process ("fatal error:
\* concurrent map writes" / "concurrent map read and map write").
GR_Fatal(p) ==
  /\ ~crashed
  /\ rl[p].pc = "gr_write"
  /\ mutex.readers \ {p} # {}
  /\ crashed' = TRUE
  /\ UNCHANGED <<requests, limit, window, mutex, rl, admitted, stable, now, svcVars, smVars, usVars, kVars, valVars>>

\* GetRemainingRequests, lines 320-325: limit - len, clamped at 0; RUnlock.
GR_Len(p) ==
  /\ ~crashed
  /\ rl[p].pc = "gr_len"
  /\ LET remaining == limit - Len(RequestsOf(requests, Key(rl[p].userID, rl[p].endpoint)))
     IN  rl' = [rl EXCEPT ![p].pc = "returned", ![p].t = 0,
                          ![p].remaining = IF remaining < 0 THEN 0 ELSE remaining]
  /\ mutex' = [mutex EXCEPT !.readers = @ \ {p}]
  /\ UNCHANGED <<requests, limit, window, crashed, admitted, stable, now, svcVars, smVars, usVars, kVars, valVars>>

\* The caller has taken the result and may call again.
LDone(p) ==
  /\ ~crashed
  /\ rl[p].pc = "returned"
  /\ rl' = [rl EXCEPT ![p] = LIdle]
  /\ UNCHANGED <<requests, limit, window, mutex, crashed, admitted, stable, now, svcVars, smVars, usVars, kVars, valVars>>

\* Time passes.
LTick ==
  /\ ~crashed
  /\ now < MaxTime
  /\ now' = now + 1
  /\ UNCHANGED <<rlVars, svcVars, smVars, usVars, kVars, valVars>>

\* NewRateLimiter.
InitLimiter ==
  /\ requests = [k \in {} |-> <<>>]
  /\ limit = DefaultLimit
  /\ window = DefaultWindow
  /\ mutex = Unlocked
  /\ rl = [p \in LProcs |-> LIdle]
  /\ crashed = FALSE
  /\ admitted = [k \in LKeys |-> <<>>]
  /\ stable = TRUE

\* The steps of the limiter's callers, their (userID, endpoint) arguments
\* drawn from pairs.
NextLimiterOf(pairs) ==
  \/ \E p \in LProcs, pr \in pairs : AR_Lock(p, pr[1], pr[2])
  \/ \E p \in LProcs : AR_Body(p)
  \/ \E n \in LimitChoices : SetLimit(n)
  \/ \E w \in WindowChoices : SetWindow(w)
  \/ Reset
  \/ \E p \in LProcs, pr \in pairs : GR_RLock(p, pr[1], pr[2])
  \/ \E p \in LProcs : GR_Read(p)
  \/ \E p \in LProcs : GR_Write(p)
  \/ \E p \in LProcs : GR_Fatal(p)
  \/ \E p \in LProcs : GR_Len(p)
  \/ \E p \in LProcs : LDone(p)
  \/ LTick

NextLimiter == NextLimiterOf(LPairs)

\* The callers of the pairs whose ids hold the separator of the key.
NextPairs == NextLimiterOf(ColonPairs)

(***************************************************************************)
(* RequestSampler                                                          *)
(*                                                                         *)
(* A rate is a whole number of ten-thousandths (0.5 is 5000), or the       *)
(* float64 NaN, with which every comparison is false.  The code            *)
(* compares float64(hashInt % 10000) / 10000.0 with the rate; for a rate   *)
(* k / 10000 both sides are the float64 nearest to a multiple of 1/10000,  *)
(* so the comparison is the comparison of the integers.  Every method      *)
(* runs under the sampler's mutex and no method writes under the read      *)
(* lock: each is one step.                                                 *)
(***************************************************************************)
RateUnit == 10000

SUsers     == {"u1", "u2"}
SEndpoints == {"/api/v1/analytics/events", "/api/v1/analytics/usage"}

\* math.NaN(), a float64 a caller can pass as a rate.
NaN == 99999999

\* The float64 comparisons a < b, a <= b and a >= b.
FLt(a, b) == a # NaN /\ b # NaN /\ a < b

FLe(a, b) == a # NaN /\ b # NaN /\ a <= b

FGe(a, b) == a # NaN /\ b # NaN /\ a >= b

\* Arguments of SetSampleRate and SetGlobalSampleRate: below 0.0, 0.0,
\* 0.314, 0.5, 1.0, above 1.0 and NaN.
RateArgs == {-1, 0, 3140, 5000, 10000, 15000, NaN}

Seeds == 0..MaxSeed

\* The first four bytes of md5.Sum([]byte(str)), for the strings the calls
\* build.
Md5Head(str) ==
  CASE str = "u1:/api/v1/analytics/events" -> <<136, 238, 196, 213>>
    [] str = "u1:/api/v1/analytics/usage"  -> <<82, 179, 93, 209>>
    [] str = "u2:/api/v1/analytics/events" -> <<226, 209, 94, 65>>
    [] str = "u2:/api/v1/analytics/usage"  -> <<175, 115, 112, 185>>

\* hashInt % 10000, where hashInt is hash[0] + hash[1]*256 + hash[2]*65536
\* + hash[3]*16777216 (a 64-bit int in the code).  The last term is reduced
\* modulo 10000 before the sum, which leaves the remainder unchanged and
\* keeps the numbers within 32 bits.
HashBucket(str) ==
  LET hash == Md5Head(str)
  IN  (hash[1] + hash[2] * 256 + hash[3] * 65536 + hash[4] * (16777216 % 10000)) % 10000

\* A sampler that draws its value from the random source.
ShouldSample_FromRand(rates, rnd, userID, endpoint) ==
  LET stored     == IF endpoint \in DOMAIN rates THEN rates[endpoint] ELSE 0
      sampleRate == IF stored = 0 THEN RateUnit ELSE stored
  IN  IF FGe(sampleRate, RateUnit) THEN TRUE
      ELSE IF FLe(sampleRate, 0) THEN FALSE
      ELSE FLt((rnd * 3331) % 10000, sampleRate)

\* ShouldSample, lines 30-54.  The random source rnd is a field of the
\* sampler; the method does not read it.
ShouldSample(rates, rnd, userID, endpoint) ==
  LET stored     == IF endpoint \in DOMAIN rates THEN rates[endpoint] ELSE 0
      sampleRate == IF stored = 0 THEN RateUnit ELSE stored
  IN  IF FGe(sampleRate, RateUnit) THEN TRUE
      ELSE IF FLe(sampleRate, 0) THEN FALSE
      ELSE FLt(HashBucket(userID \o ":" \o endpoint), sampleRate)

\* The clamp of SetSampleRate and SetGlobalSampleRate.
Clamp(rate) ==
  IF FLt(rate, 0) THEN 0 ELSE IF FLt(RateUnit, rate) THEN RateUnit ELSE rate

\* GetSampleRate, lines 78-82.
GetSampleRate(rates, endpoint) ==
  IF endpoint \in DOMAIN rates THEN rates[endpoint] ELSE RateUnit

\* What the configuration holds for the endpoint: whether a rate is set, and
\* which.
Configured(rates, endpoint) ==
  IF endpoint \in DOMAIN rates
  THEN [set |-> TRUE, rate |-> rates[endpoint]]
  ELSE [set |-> FALSE, rate |-> 0]

NoCall == [op |-> "none", userID |-> "", endpoint |-> "",
           cfg |-> [set |-> FALSE, rate |-> 0], rand |-> 0,
           sampled |-> FALSE, rate |-> 0]

SameQuestion(a, b) ==
  a.cfg = b.cfg /\ a.userID = b.userID /\ a.endpoint = b.endpoint

\* A call of ShouldSample.  With keep, the call becomes the one that later
\* calls are compared with.
SS_Call(userID, endpoint, keep) ==
  /\ LET call == [NoCall EXCEPT !.op = "ShouldSample", !.userID = userID,
                                !.endpoint = endpoint,
                                !.cfg = Configured(sampleRates, endpoint),
                                !.rand = rand,
                                !.sampled = ShouldSample(sampleRates, rand, userID, endpoint)]
     IN  /\ slast' = call
         /\ IF keep
            THEN sref' = call /\ sothers' = FALSE
            ELSE /\ sref' = sref
                 /\ sothers' = (sothers \/ (sref.op # "none" /\ ~SameQuestion(sref, call)))
  /\ UNCHANGED <<sampleRates, rand, now, svcVars, rlVars, usVars, kVars, valVars>>

\* SetSampleRate.
SetSampleRate(endpoint, rate) ==
  /\ sampleRates' = MapPut(sampleRates, endpoint, Clamp(rate))
  /\ slast' = [NoCall EXCEPT !.op = "SetSampleRate", !.endpoint = endpoint]
  /\ UNCHANGED <<rand, sref, sothers, now, svcVars, rlVars, usVars, kVars, valVars>>

\* A call of GetSampleRate.
GS_Call(endpoint) ==
  /\ slast' = [NoCall EXCEPT !.op = "GetSampleRate", !.endpoint = endpoint,
                             !.rate = GetSampleRate(sampleRates, endpoint)]
  /\ UNCHANGED <<sampleRates, rand, sref, sothers, now, svcVars, rlVars, usVars, kVars, valVars>>

\* SetGlobalSampleRate: the endpoints the map holds take the clamped rate.
SetGlobalSampleRate(rate) ==
  /\ sampleRates' = [e \in DOMAIN sampleRates |-> Clamp(rate)]
  /\ slast' = [NoCall EXCEPT !.op = "SetGlobalSampleRate"]
  /\ UNCHANGED <<rand, sref, sothers, now, svcVars, rlVars, usVars, kVars, valVars>>

\* Reset: sampleRates = make(map).
SReset ==
  /\ sampleRates' = [e \in {} |-> 0]
  /\ slast' = [NoCall EXCEPT !.op = "Reset"]
  /\ UNCHANGED <<rand, sref, sothers, now, svcVars, rlVars, usVars, kVars, valVars>>

\* NewRequestSampler: an empty map and a random source seeded from the
\* clock.  The program builds another sampler; the history is kept.
NewRequestSampler(seed) ==
  /\ sampleRates' = [e \in {} |-> 0]
  /\ rand' = seed
  /\ slast' = [NoCall EXCEPT !.op = "NewRequestSampler"]
  /\ UNCHANGED <<sref, sothers, now, svcVars, rlVars, usVars, kVars, valVars>>

InitSampler ==
  /\ sampleRates = [e \in {} |-> 0]
  /\ rand = 0
  /\ slast = NoCall
  /\ sref = NoCall
  /\ sothers = FALSE

NextSampler ==
  \/ \E u \in SUsers, e \in SEndpoints, keep \in BOOLEAN : SS_Call(u, e, keep)
  \/ \E e \in SEndpoints, r \in RateArgs : SetSampleRate(e, r)
  \/ \E e \in SEndpoints : GS_Call(e)
  \/ \E r \in RateArgs : SetGlobalSampleRate(r)
  \/ SReset
  \/ \E seed \in Seeds : NewRequestSampler(seed)

(***************************************************************************)
(* AnalyticsService.GetUsage                                               *)
(*                                                                         *)
(* The clock unit is 12 hours, counted from 1970-01-01T00:00:00Z.  A       *)
(* float64 cost is the record [units, ulps]: the float64 that lies ulps    *)
(* representable values above the float64 nearest to units / 10000.        *)
(* float64(count) * rate is the nearest float64 (ulps 0) for every count   *)
(* up to 5; a sum depends on the order of its terms, and RoundingOfSum     *)
(* lists the sums of up to 5 events' costs that are not the nearest.       *)
(***************************************************************************)
Day == 2                 \* 24 * time.Hour, in clock units

\* Arguments of GetUsage: a date, an RFC 3339 time and a string that is
\* neither.
StartStrings == {"1970-01-01", "1970-01-01T12:00:00Z", "yesterday"}
EndStrings   == {"1970-01-01", "yesterday"}

\* time.Parse("2006-01-02", s), then time.Parse(time.RFC3339, s).
ParseDate(str) ==
  CASE str = "1970-01-01"           -> [ok |-> TRUE,  t |-> 0]
    [] str = "1970-01-01T12:00:00Z" -> [ok |-> TRUE,  t |-> 1]
    [] OTHER                        -> [ok |-> FALSE, t |-> 0]

F(units, ulps) == [units |-> units, ulps |-> ulps]

\* The ulps of the float64 sum x + y.
RoundingOfSum(x, y) ==
  CASE x = F(5, 0) /\ y = F(40, 0) -> 1
    [] x = F(5, 0) /\ y = F(60, 0) -> 1
    [] x = F(10, 0) /\ y = F(80, 0) -> 1
    [] x = F(15, 0) /\ y = F(200, 0) -> 1
    [] x = F(25, 0) /\ y = F(20, 0) -> 1
    [] x = F(25, 0) /\ y = F(40, 0) -> 1
    [] x = F(30, 0) /\ y = F(15, 0) -> 1
    [] x = F(30, 0) /\ y = F(100, 0) -> 1
    [] x = F(35, 0) /\ y = F(10, 0) -> 1
    [] x = F(40, 0) /\ y = F(5, 0) -> 1
    [] x = F(45, 1) /\ y = F(10, 0) -> 1
    [] x = F(45, 1) /\ y = F(20, 0) -> 1
    [] x = F(45, 1) /\ y = F(100, 0) -> 0
    [] x = F(45, 1) /\ y = F(200, 0) -> 0
    [] x = F(55, 1) /\ y = F(100, 0) -> 0
    [] x = F(60, 0) /\ y = F(5, 0) -> 1
    [] x = F(60, 0) /\ y = F(200, 0) -> 1
    [] x = F(65, 1) /\ y = F(10, 0) -> 1
    [] x = F(65, 1) /\ y = F(100, 0) -> 0
    [] x = F(80, 0) /\ y = F(10, 0) -> 1
    [] x = F(80, 0) /\ y = F(100, 0) -> 1
    [] x = F(100, 0) /\ y = F(30, 0) -> 1
    [] x = F(100, 0) /\ y = F(80, 0) -> 1
    [] x = F(105, 0) /\ y = F(30, 0) -> 1
    [] x = F(110, 0) /\ y = F(15, 0) -> -1
    [] x = F(120, 0) /\ y = F(10, 0) -> 1
    [] x = F(125, 0) /\ y = F(10, 0) -> 1
    [] x = F(130, 0) /\ y = F(10, 0) -> -1
    [] x = F(130, 1) /\ y = F(5, 0) -> 1
    [] x = F(130, 1) /\ y = F(10, 0) -> 1
    [] x = F(130, 1) /\ y = F(20, 0) -> 1
    [] x = F(200, 0) /\ y = F(15, 0) -> 1
    [] x = F(200, 0) /\ y = F(60, 0) -> 1
    [] x = F(205, 0) /\ y = F(10, 0) -> 1
    [] x = F(210, 0) /\ y = F(5, 0) -> 1
    [] x = F(210, 0) /\ y = F(10, 0) -> 1
    [] x = F(215, 1) /\ y = F(20, 0) -> 0
    [] OTHER -> 0

\* totalCost += cost, from the zero value 0.0.
FloatAdd(x, y) ==
  IF x = F(0, 0) THEN y ELSE F(x.units + y.units, RoundingOfSum(x, y))

\* The price of one event of the type, in units of $0.0001.
PriceOf(eventType) ==
  CASE eventType = "page_view"  -> 10
    [] eventType = "click"      -> 20
    [] eventType = "conversion" -> 100
    [] OTHER                    -> 5

\* float64(count) * rate.
CostOf(eventType, count) == F(count * PriceOf(eventType), 0)

\* The totals the loop of calculateBillingSummary can reach over the types
\* left: range over a Go map visits them in any order.
RECURSIVE TotalCosts(_, _, _)
TotalCosts(eventsByType, left, totalCost) ==
  IF left = {} THEN {totalCost}
  ELSE UNION {TotalCosts(eventsByType, left \ {eventType},
                         FloatAdd(totalCost, CostOf(eventType, eventsByType[eventType])))
                : eventType \in left}

\* calculateBillingSummary: the summaries it can return.
calculateBillingSummary(eventsByType) ==
  {[TotalCost     |-> total,
    CostBreakdown |-> [t \in DOMAIN eventsByType |-> CostOf(t, eventsByType[t])],
    Currency      |-> "USD"]
     : total \in TotalCosts(eventsByType, DOMAIN eventsByType, F(0, 0))}

\* eventsByType[event.EventType]++ over the ids.
CountByType(evs, ids) ==
  [t \in {evs[id].EventType : id \in ids} |->
     Cardinality({id \in ids : evs[id].EventType = t})]

\* GetUsage, lines 170-177: the events of the user after startDate and
\* before endDate + 24h.
UsageEvents(evs, userID, startDate, endDate) ==
  {id \in DOMAIN evs :
     /\ evs[id].UserID = userID
     /\ evs[id].Timestamp > startDate
     /\ evs[id].Timestamp < endDate + Day}

NoUsage == [op |-> "none", userID |-> "", start |-> "", end |-> "", ids |-> {},
            err |-> Ok, TotalEvents |-> 0, EventsByType |-> <<>>,
            BillingSummary |-> [TotalCost |-> F(0, 0), CostBreakdown |-> <<>>,
                                Currency |-> ""]]

\* GetUsage: what the call can return.
GetUsage(evs, userID, startDateStr, endDateStr) ==
  LET call == [NoUsage EXCEPT !.op = "GetUsage", !.userID = userID,
                              !.start = startDateStr, !.end = endDateStr,
                              !.ids = DOMAIN evs]
      startDate == ParseDate(startDateStr)
      endDate   == ParseDate(endDateStr)
  IN  IF ~startDate.ok THEN {[call EXCEPT !.err = Err("invalid_start_date", "")]}
      ELSE IF ~endDate.ok THEN {[call EXCEPT !.err = Err("invalid_end_date", "")]}
      ELSE LET ids == UsageEvents(evs, userID, startDate.t, endDate.t)
               eventsByType == CountByType(evs, ids)
           IN  {[call EXCEPT !.TotalEvents = Cardinality(ids),
                             !.EventsByType = eventsByType,
                             !.BillingSummary = billingSummary]
                  : billingSummary \in calculateBillingSummary(eventsByType)}

\* The payloads of the usage specification: valid, one per event type.
UsageTypes == {"page_view", "click", "conversion", "signup"}

UsagePayloads == {[event_type |-> Str(t), user_id |-> Str("u1")] : t \in UsageTypes}

\* TrackEvent, from the call to the return, as one step.
TE_Whole(eventData, apiKey, userID, usageOutcome, eventOutcome) ==
  /\ \A c \in Callers : svc[c].pc = "idle"
  /\ Cardinality(DOMAIN events) < MaxEvents
  /\ \E res \in ValidateEvent(eventData) :
       IF res # Ok
       THEN UNCHANGED <<events, uuids>>
       ELSE LET enriched == enrichEventData(eventData, now, UuidString(uuids + 1))
                built == NewEvent(enriched, apiKey, userID, UuidString(uuids + 2), now)
                event == [built EXCEPT !.BillingEventID =
                            BillingEventIDAfter(TrackAPICall(usageOutcome, eventOutcome),
                                                uuids + 3)]
            IN  /\ events' = [id \in DOMAIN events \cup {event.ID} |->
                                IF id = event.ID THEN event ELSE events[id]]
                /\ uuids' = uuids + 3
  /\ UNCHANGED <<svc, now, rlVars, smVars, usVars, kVars, valVars>>

\* A call of GetUsage.
GU_Call(userID, startDateStr, endDateStr) ==
  /\ \A c \in Callers : svc[c].pc = "idle"
  /\ \E ret \in GetUsage(events, userID, startDateStr, endDateStr) : usage' = ret
  /\ UNCHANGED <<svcVars, now, rlVars, smVars, kVars, valVars>>

\* Time passes.
UTick ==
  /\ now < MaxTime
  /\ now' = now + 1
  /\ UNCHANGED <<svcVars, rlVars, smVars, usVars, kVars, valVars>>

InitUsage == usage = NoUsage

\* The billing service answers both POSTs, or the first one fails.
UsageOutcomes == {<<"created", "created">>, <<"transport_error", "created">>}

NextUsage ==
  \/ \E p \in UsagePayloads, k \in APIKeys, u \in UserIDs, o \in UsageOutcomes :
        TE_Whole(p, k, u, o[1], o[2])
  \/ \E u \in UserIDs, sd \in StartStrings, ed \in EndStrings : GU_Call(u, sd, ed)
  \/ UTick

(***************************************************************************)
(* AnalyticsService under concurrent callers                               *)
(*                                                                         *)
(* AnalyticsService has no lock (service.go 13-17): the map write of       *)
(* TrackEvent (line 68) and the range loop of GetUsage (lines 170-177) are *)
(* plain accesses to s.events.  Each of them takes time, so it is a begin  *)
(* and an end step.  Two accesses that overlap, one of them a write, are a *)
(* data race: the runtime may abort the process ("fatal error: concurrent  *)
(* map writes" / "concurrent map iteration and map write"), the write may  *)
(* land, or of two overlapping writes the one that finishes first may be   *)
(* overwritten by the other; a racing scan visits any set of entries       *)
(* between those present at its start and those present at its end.        *)
(***************************************************************************)
MapWriters(c) == {d \in Callers \ {c} : svc[d].pc = "writing"}

MapScanners(c) == {d \in Callers \ {c} : svc[d].pc = "scanning"}

\* The records of the callers when c begins an access that is a write
\* (others = the writers and scanners) or a scan (others = the writers).
BeginAccess(c, pc, others) ==
  [d \in Callers |->
     IF d = c THEN [svc[c] EXCEPT !.pc = pc, !.raced = (others # {}),
                                  !.seen = DOMAIN events]
     ELSE IF d \in others THEN [svc[d] EXCEPT !.raced = TRUE]
     ELSE svc[d]]

\* The runtime aborts the process: every goroutine ends.
Fatal == [d \in Callers |-> [svc[d] EXCEPT !.pc = "fatal"]]

\* TrackEvent, lines 57-65: the billing call returns and the event gets its
\* billing-event id.
TE_Billed(c, usageOutcome, eventOutcome) ==
  /\ svc[c].pc = "billing"
  /\ svc[c].op = "TrackEvent"
  /\ LET res == TrackAPICall(usageOutcome, eventOutcome)
     IN  svc' = [svc EXCEPT ![c].pc = "store", ![c].billing = res,
                            ![c].posts = TrackAPICallPosts(usageOutcome, eventOutcome),
                            ![c].event.BillingEventID =
                               BillingEventIDAfter(res, uuids + 1)]
  /\ uuids' = uuids + 1
  /\ UNCHANGED <<events, now, rlVars, smVars, usVars, kVars, valVars>>

\* TrackEvent, line 68: s.events[event.ID] = event begins.
TE_StoreBegin(c) ==
  /\ svc[c].pc = "store"
  /\ svc' = BeginAccess(c, "writing", MapWriters(c) \cup MapScanners(c))
  /\ UNCHANGED <<events, uuids, now, rlVars, smVars, usVars, kVars, valVars>>

\* TrackEvent, lines 68-74: the map write ends and the event is returned.
TE_StoreEnd(c) ==
  /\ svc[c].pc = "writing"
  /\ LET event == svc[c].event
         stored == [id \in DOMAIN events \cup {event.ID} |->
                      IF id = event.ID THEN event ELSE events[id]]
         done == [svc EXCEPT ![c].pc = "returned", ![c].raced = FALSE,
                             ![c].seen = {}]
     IN  \/ events' = stored /\ svc' = done
         \/ svc[c].raced /\ MapWriters(c) # {} /\ events' = events /\ svc' = done
         \/ svc[c].raced /\ events' = events /\ svc' = Fatal
  /\ UNCHANGED <<uuids, now, rlVars, smVars, usVars, kVars, valVars>>

\* GetUsage, lines 142-170: the dates are parsed and the range loop begins.
GU_ScanBegin(c, userID, startDateStr, endDateStr) ==
  /\ svc[c].pc = "idle"
  /\ LET call == [Idle EXCEPT !.op = "GetUsage", !.userID = userID,
                              !.start = startDateStr, !.end = endDateStr]
     IN  IF ~ParseDate(startDateStr).ok \/ ~ParseDate(endDateStr).ok
         THEN /\ svc' = [svc EXCEPT ![c] = [call EXCEPT !.pc = "returned",
                            !.err = IF ~ParseDate(startDateStr).ok
                                    THEN Err("invalid_start_date", "")
                                    ELSE Err("invalid_end_date", "")]]
              /\ \E ret \in GetUsage(events, userID, startDateStr, endDateStr) :
                   usage' = ret
         ELSE /\ svc' = [BeginAccess(c, "scanning", MapWriters(c)) EXCEPT
                           ![c].op = "GetUsage", ![c].userID = userID,
                           ![c].start = startDateStr, ![c].end = endDateStr,
                           ![c].isNil = FALSE]
              /\ UNCHANGED usage
  /\ UNCHANGED <<events, uuids, now, rlVars, smVars, kVars, valVars>>

\* GetUsage, lines 170-194: the range loop ends and the summary is returned.
GU_ScanEnd(c) ==
  /\ svc[c].pc = "scanning"
  /\ \/ \E visited \in SUBSET DOMAIN events :
          /\ svc[c].seen \subseteq visited
          /\ svc[c].raced \/ visited = DOMAIN events
          /\ \E ret \in GetUsage([id \in visited |-> events[id]], svc[c].userID,
                                 svc[c].start, svc[c].end) : usage' = ret
          /\ svc' = [svc EXCEPT ![c].pc = "returned", ![c].raced = FALSE,
                                ![c].seen = {}]
     \/ svc[c].raced /\ svc' = Fatal /\ UNCHANGED usage
  /\ UNCHANGED <<events, uuids, now, rlVars, smVars, kVars, valVars>>

StorePayloads == {[event_type |-> Str("page_view"), user_id |-> Str("u1")],
                  [event_type |-> IntV("123")]}
StoreUsers == {"u1"}

NextStore ==
  \/ \E c \in Callers, p \in StorePayloads, k \in APIKeys, u \in StoreUsers : TE_Call(c, p, k, u)
  \/ \E c \in Callers, o \in UsageOutcomes : TE_Billed(c, o[1], o[2])
  \/ \E c \in Callers : TE_StoreBegin(c)
  \/ \E c \in Callers : TE_StoreEnd(c)
  \/ \E c \in Callers, u \in StoreUsers, ed \in EndStrings : GU_ScanBegin(c, u, "1970-01-01", ed)
  \/ \E c \in Callers : GU_ScanEnd(c)
  \/ \E c \in Callers, u \in StoreUsers : TU_Call(c, u, "/api/v1/analytics/usage", "GET")
  \/ \E c \in Callers, o \in UsageOutcomes : TU_Return(c, o[1], o[2])
  \/ \E c \in Callers : SvcDone(c)
  \/ UTick

(***************************************************************************)
(* KafkaConsumerService: the cross-service event router                    *)
(*                                                                         *)
(* Start, Stop and RegisterHandler hold s.mu exclusively; routeEvent reads *)
(* the registry under the shared lock, which it gets when no writer holds  *)
(* s.mu.  A consumption loop is named by the Start() that spawned it and   *)
(* its topic.  The broker keeps one log per topic; a partition consumer    *)
(* opened at OffsetNewest delivers the messages appended after it was      *)
(* opened, in order.  A select with several ready cases takes any of them. *)
(* A handler runs in a goroutine of its own; one that never returns stays  *)
(* "running".                                                              *)
(***************************************************************************)
KProcs  == {"k1", "k2"}

KTopics == {"auth-events", "billing-events"}

\* Each caller starts the router at most once in a run.
MaxStarts == Cardinality(KProcs)

LoopIds == (1..MaxStarts) \X KTopics

BillingKeys ==
  { "billing.user.subscription.created",
    "billing.user.subscription.updated",
    "billing.user.subscription.cancelled",
    "billing.payment.completed",
    "billing.payment.failed" }

AuthKeys ==
  { "auth.user.login",
    "auth.user.logout",
    "auth.user.registered",
    "auth.user.password.changed" }

PaymentKeys ==
  { "payments.transaction.completed",
    "payments.transaction.failed",
    "payments.refund.processed" }

AnalyticsKeys ==
  { "analytics.page.view",
    "analytics.user.action",
    "analytics.conversion" }

\* registerDefaultHandlers: the registry after construction.
registerDefaultHandlers ==
  [k \in BillingKeys \cup AuthKeys \cup PaymentKeys \cup AnalyticsKeys |->
     IF k \in BillingKeys THEN "handleBillingEvent"
     ELSE IF k \in AuthKeys THEN "handleAuthEvent"
     ELSE IF k \in PaymentKeys THEN "handlePaymentEvent"
     ELSE "handleAnalyticsEvent"]

DefaultHandlerNames ==
  {"handleBillingEvent", "handleAuthEvent", "handlePaymentEvent", "handleAnalyticsEvent"}

\* Handlers a caller registers, and the types it registers them for.
CallerHandlers == {"testHandler"}

RegisterKeys == {"test.event", "auth.user.login"}

\* What a handler can return; the router's own handlers always return nil.
HandlerResults(handler) ==
  IF handler \in DefaultHandlerNames THEN {"nil"} ELSE {"nil", "error"}

\* The type starts with the key, for the types of the messages below.
HasPrefix(eventType, key) ==
  \/ eventType = key
  \/ eventType = "auth.user.login.failed" /\ key = "auth.user.login"

\* A lookup that takes the handler of a registered key the type starts with.
Lookup_Prefix(h, eventType) ==
  LET keys == {k \in DOMAIN h : HasPrefix(eventType, k)}
  IN  IF keys = {} THEN [exists |-> FALSE, handler |-> "nil"]
      ELSE [exists |-> TRUE, handler |-> h[CHOOSE k \in keys : TRUE]]

\* handler, exists := s.handlers[event.EventType]
Lookup(h, eventType) ==
  IF eventType \in DOMAIN h
  THEN [exists |-> TRUE, handler |-> h[eventType]]
  ELSE [exists |-> FALSE, handler |-> "nil"]

\* Message values: a JSON object with the two fields the router reads, or
\* bytes that are not JSON.
Json(eventType, correlationID) ==
  [json |-> TRUE, event_type |-> eventType, correlation_id |-> correlationID]

Garbage == [json |-> FALSE, event_type |-> Absent, correlation_id |-> Absent]

KPayloads ==
  { Json(Str("auth.user.login"), Str("corr-1")),
    Json(Str("auth.user.login.failed"), Absent),
    Json(Str("test.event"), Str("")),
    Garbage }

NoCrossServiceEvent == [EventType |-> "", CorrelationID |-> ""]

\* json.Unmarshal(msg.Value, &event): a string field takes a JSON string,
\* keeps its zero value when the key is missing, and any other JSON value
\* is an error.
Unmarshal(value) ==
  IF /\ value.json
     /\ value.event_type.k \in {"string", "absent"}
     /\ value.correlation_id.k \in {"string", "absent"}
  THEN [ok |-> TRUE,
        event |-> [EventType     |-> IF value.event_type.k = "string"
                                     THEN value.event_type.v ELSE "",
                   CorrelationID |-> IF value.correlation_id.k = "string"
                                     THEN value.correlation_id.v ELSE ""]]
  ELSE [ok |-> FALSE, event |-> NoCrossServiceEvent]

\* A caller outside Start, Stop and RegisterHandler; arg holds the arguments
\* of a RegisterHandler in progress.
KIdle == [pc |-> "idle", ret |-> "", run |-> 0, arg |-> <<>>]

NoLoop == [pc |-> "none", off |-> 0, event |-> NoCrossServiceEvent]

TotalMessages == SumLen(broker, KTopics)

\* The loops that hold s.mu shared, inside routeEvent.
Readers == {l \in LoopIds : loops[l].pc = "lookup"}

\* Start, line 90: s.mu.Lock()
Start_Lock(p) ==
  /\ kcall[p].pc = "idle"
  /\ starts < MaxStarts
  /\ kmu = "none" /\ Readers = {}
  /\ kmu' = p
  /\ kcall' = [kcall EXCEPT ![p] = [KIdle EXCEPT !.pc = "start_locked"]]
  /\ UNCHANGED <<running, ctxDone, closes, starts, handlers, loops, broker, topics,
                 invocations, taken, kuuids, now, svcVars, rlVars, smVars, usVars, valVars>>

\* A Start that does not test s.running.
Start_Check_Unchecked(p) ==
  /\ kcall[p].pc = "start_locked"
  /\ kmu' = "none"
  /\ running' = TRUE
  /\ starts' = starts + 1
  /\ kcall' = [kcall EXCEPT ![p].pc = "start_spawn", ![p].run = starts + 1]
  /\ UNCHANGED <<ctxDone, closes, handlers, loops, broker, topics,
                 invocations, taken, kuuids, now, svcVars, rlVars, smVars, usVars, valVars>>

\* Start, lines 91-96: the test of s.running, under the lock
Start_Check(p) ==
  /\ kcall[p].pc = "start_locked"
  /\ kmu' = "none"
  /\ IF running
     THEN /\ kcall' = [kcall EXCEPT ![p].pc = "idle", ![p].ret = "already_running"]
          /\ UNCHANGED <<running, starts>>
     ELSE /\ running' = TRUE
          /\ starts' = starts + 1
          /\ kcall' = [kcall EXCEPT ![p].pc = "start_spawn", ![p].run = starts + 1]
  /\ UNCHANGED <<ctxDone, closes, handlers, loops, broker, topics,
                 invocations, taken, kuuids, now, svcVars, rlVars, smVars, usVars, valVars>>

\* Start, lines 98-104: one goroutine per topic, then return nil
Start_Spawn(p) ==
  /\ kcall[p].pc = "start_spawn"
  /\ loops' = [l \in LoopIds |->
                 IF l[1] = kcall[p].run /\ l[2] \in topics
                 THEN [NoLoop EXCEPT !.pc = "spawned"]
                 ELSE loops[l]]
  /\ kcall' = [kcall EXCEPT ![p].pc = "idle", ![p].ret = "nil", ![p].run = 0]
  /\ UNCHANGED <<running, ctxDone, closes, starts, handlers, kmu, broker, topics,
                 invocations, taken, kuuids, now, svcVars, rlVars, smVars, usVars, valVars>>

\* Stop, line 109: s.mu.Lock()
Stop_Lock(p) ==
  /\ kcall[p].pc = "idle"
  /\ kmu = "none" /\ Readers = {}
  /\ kmu' = p
  /\ kcall' = [kcall EXCEPT ![p] = [KIdle EXCEPT !.pc = "stop_locked"]]
  /\ UNCHANGED <<running, ctxDone, closes, starts, handlers, loops, broker, topics,
                 invocations, taken, kuuids, now, svcVars, rlVars, smVars, usVars, valVars>>

\* A Stop that cancels and closes whether the router runs or not.
Stop_Body_Unchecked(p) ==
  /\ kcall[p].pc = "stop_locked"
  /\ kmu' = "none"
  /\ kcall' = [kcall EXCEPT ![p].pc = "idle", ![p].ret = "stopped"]
  /\ running' = FALSE
  /\ ctxDone' = TRUE
  /\ closes' = closes + 1
  /\ UNCHANGED <<starts, handlers, loops, broker, topics,
                 invocations, taken, kuuids, now, svcVars, rlVars, smVars, usVars, valVars>>

\* A Stop that leaves the context alone.
Stop_Body_NoCancel(p) ==
  /\ kcall[p].pc = "stop_locked"
  /\ kmu' = "none"
  /\ kcall' = [kcall EXCEPT ![p].pc = "idle", ![p].ret = "stopped"]
  /\ IF ~running
     THEN UNCHANGED <<running, ctxDone, closes>>
     ELSE /\ running' = FALSE
          /\ closes' = closes + 1
          /\ UNCHANGED ctxDone
  /\ UNCHANGED <<starts, handlers, loops, broker, topics,
                 invocations, taken, kuuids, now, svcVars, rlVars, smVars, usVars, valVars>>

\* A Stop that waits until every handler it finds has returned.
Stop_Body_AwaitHandlers(p) ==
  /\ kcall[p].pc = "stop_locked"
  /\ \A k \in 1..Len(invocations) : invocations[k].state # "running"
  /\ kmu' = "none"
  /\ kcall' = [kcall EXCEPT ![p].pc = "idle", ![p].ret = "stopped"]
  /\ IF ~running
     THEN UNCHANGED <<running, ctxDone, closes>>
     ELSE /\ running' = FALSE
          /\ ctxDone' = TRUE
          /\ closes' = closes + 1
  /\ UNCHANGED <<starts, handlers, loops, broker, topics,
                 invocations, taken, kuuids, now, svcVars, rlVars, smVars, usVars, valVars>>

\* Stop, lines 110-123, under the lock, with the deferred Unlock
Stop_Body(p) ==
  /\ kcall[p].pc = "stop_locked"
  /\ kmu' = "none"
  /\ kcall' = [kcall EXCEPT ![p].pc = "idle", ![p].ret = "stopped"]
  /\ IF ~running
     THEN UNCHANGED <<running, ctxDone, closes>>
     ELSE /\ running' = FALSE
          /\ ctxDone' = TRUE
          /\ closes' = closes + 1
  /\ UNCHANGED <<starts, handlers, loops, broker, topics,
                 invocations, taken, kuuids, now, svcVars, rlVars, smVars, usVars, valVars>>

\* RegisterHandler, line 57: s.mu.Lock()
RegisterHandler_Lock(p, eventType, handler) ==
  /\ kcall[p].pc = "idle"
  /\ kmu = "none" /\ Readers = {}
  /\ kmu' = p
  /\ kcall' = [kcall EXCEPT ![p] = [KIdle EXCEPT !.pc = "register_locked",
                                                 !.arg = <<eventType, handler>>]]
  /\ UNCHANGED <<running, ctxDone, closes, starts, handlers, loops, broker, topics,
                 invocations, taken, kuuids, now, svcVars, rlVars, smVars, usVars, valVars>>

\* A RegisterHandler that keeps the handler a type already has.
RegisterHandler_KeepFirst(p) ==
  /\ kcall[p].pc = "register_locked"
  /\ handlers' = IF kcall[p].arg[1] \in DOMAIN handlers THEN handlers
                 ELSE MapPut(handlers, kcall[p].arg[1], kcall[p].arg[2])
  /\ kmu' = "none"
  /\ kcall' = [kcall EXCEPT ![p] = KIdle]
  /\ UNCHANGED <<running, ctxDone, closes, starts, loops, broker, topics,
                 invocations, taken, kuuids, now, svcVars, rlVars, smVars, usVars, valVars>>

\* RegisterHandler, lines 58-59: s.handlers[eventType] = handler, under the
\* lock, with the deferred Unlock
RegisterHandler(p) ==
  /\ kcall[p].pc = "register_locked"
  /\ handlers' = MapPut(handlers, kcall[p].arg[1], kcall[p].arg[2])
  /\ kmu' = "none"
  /\ kcall' = [kcall EXCEPT ![p] = KIdle]
  /\ UNCHANGED <<running, ctxDone, closes, starts, loops, broker, topics,
                 invocations, taken, kuuids, now, svcVars, rlVars, smVars, usVars, valVars>>

\* consumeTopic, lines 128-135: s.consumer.ConsumePartition(topic, 0, OffsetNewest).
\* A closed consumer refuses; an open one can fail to reach the broker.
ConsumePartition(l, reachable) ==
  /\ loops[l].pc = "spawned"
  /\ IF closes = 0 /\ reachable
     THEN loops' = [loops EXCEPT ![l].pc = "select", ![l].off = Len(broker[l[2]]) + 1]
     ELSE loops' = [loops EXCEPT ![l].pc = "failed"]
  /\ UNCHANGED <<running, ctxDone, closes, starts, handlers, kmu, kcall, broker, topics,
                 invocations, taken, kuuids, now, svcVars, rlVars, smVars, usVars, valVars>>

\* consumeTopic, lines 139-141: case <-s.ctx.Done()
Loop_Done(l) ==
  /\ loops[l].pc = "select"
  /\ ctxDone
  /\ loops' = [loops EXCEPT ![l].pc = "exited"]
  /\ UNCHANGED <<running, ctxDone, closes, starts, handlers, kmu, kcall, broker, topics,
                 invocations, taken, kuuids, now, svcVars, rlVars, smVars, usVars, valVars>>

\* consumeTopic, lines 144-145: case err := <-partitionConsumer.Errors(),
\* which logs the error and selects again
Loop_Error(l) ==
  /\ loops[l].pc = "select"
  /\ UNCHANGED <<kVars, now, svcVars, rlVars, smVars, usVars, valVars>>

\* A loop that leaves an undecodable message at the head of its topic.
handleMessage_Retry(l) ==
  LET topic == l[2]
      off   == loops[l].off
      dec   == Unmarshal(broker[topic][off])
      fresh == dec.ok /\ dec.event.CorrelationID = ""
  IN  /\ loops[l].pc = "select"
      /\ off <= Len(broker[topic])
      /\ taken[<<topic, off>>] < 2
      /\ taken' = [taken EXCEPT ![<<topic, off>>] = @ + 1]
      /\ kuuids' = IF fresh THEN kuuids + 1 ELSE kuuids
      /\ loops' = [loops EXCEPT
                     ![l].off = IF dec.ok THEN off + 1 ELSE off,
                     ![l].pc = IF dec.ok THEN "route" ELSE "select",
                     ![l].event = IF fresh
                                  THEN [dec.event EXCEPT
                                          !.CorrelationID = "kuuid-" \o ToString(kuuids + 1)]
                                  ELSE dec.event]
      /\ UNCHANGED <<running, ctxDone, closes, starts, handlers, kmu, kcall, broker, topics,
                     invocations, now, svcVars, rlVars, smVars, usVars, valVars>>

\* A loop that routes the event with the correlation id it arrived with.
handleMessage_KeepCorrelation(l) ==
  LET topic == l[2]
      off   == loops[l].off
      dec   == Unmarshal(broker[topic][off])
  IN  /\ loops[l].pc = "select"
      /\ off <= Len(broker[topic])
      /\ taken' = [taken EXCEPT ![<<topic, off>>] = @ + 1]
      /\ loops' = [loops EXCEPT
                     ![l].off = off + 1,
                     ![l].pc = IF dec.ok THEN "route" ELSE "select",
                     ![l].event = dec.event]
      /\ UNCHANGED <<running, ctxDone, closes, starts, handlers, kmu, kcall, broker, topics,
                     invocations, kuuids, now, svcVars, rlVars, smVars, usVars, valVars>>

\* consumeTopic, lines 142-143, and handleMessage up to the call of
\* routeEvent: receive the next message, decode it, give it a correlation id
handleMessage(l) ==
  LET topic == l[2]
      off   == loops[l].off
      dec   == Unmarshal(broker[topic][off])
      fresh == dec.ok /\ dec.event.CorrelationID = ""
  IN  /\ loops[l].pc = "select"
      /\ off <= Len(broker[topic])
      /\ taken' = [taken EXCEPT ![<<topic, off>>] = @ + 1]
      /\ kuuids' = IF fresh THEN kuuids + 1 ELSE kuuids
      /\ loops' = [loops EXCEPT
                     ![l].off = off + 1,
                     ![l].pc = IF dec.ok THEN "route" ELSE "select",
                     ![l].event = IF fresh
                                  THEN [dec.event EXCEPT
                                          !.CorrelationID = "kuuid-" \o ToString(kuuids + 1)]
                                  ELSE dec.event]
      /\ UNCHANGED <<running, ctxDone, closes, starts, handlers, kmu, kcall, broker, topics,
                     invocations, now, svcVars, rlVars, smVars, usVars, valVars>>

\* A loop that ends when no handler is registered for the event.
routeEvent_ExitOnMiss(l) ==
  LET found == Lookup(handlers, loops[l].event.EventType)
  IN  /\ loops[l].pc = "lookup"
      /\ loops' = [loops EXCEPT ![l].pc = IF found.exists THEN "select" ELSE "exited",
                                 ![l].event = NoCrossServiceEvent]
      /\ invocations' =
           IF found.exists
           THEN Append(invocations, [topic   |-> l[2],
                                     off     |-> loops[l].off - 1,
                                     handler |-> found.handler,
                                     event   |-> loops[l].event,
                                     state   |-> "running"])
           ELSE invocations
      /\ UNCHANGED <<running, ctxDone, closes, starts, handlers, kmu, kcall, broker, topics,
                     taken, kuuids, now, svcVars, rlVars, smVars, usVars, valVars>>

\* A loop that calls the handler itself and waits for it.
routeEvent_Sync(l) ==
  LET found == Lookup(handlers, loops[l].event.EventType)
  IN  /\ loops[l].pc = "lookup"
      /\ loops' = [loops EXCEPT ![l].pc = IF found.exists THEN "call" ELSE "select",
                                 ![l].event = NoCrossServiceEvent]
      /\ invocations' =
           IF found.exists
           THEN Append(invocations, [topic   |-> l[2],
                                     off     |-> loops[l].off - 1,
                                     handler |-> found.handler,
                                     event   |-> loops[l].event,
                                     state   |-> "running"])
           ELSE invocations
      /\ UNCHANGED <<running, ctxDone, closes, starts, handlers, kmu, kcall, broker, topics,
                     taken, kuuids, now, svcVars, rlVars, smVars, usVars, valVars>>

\* routeEvent, line 171: s.mu.RLock(), granted when no writer holds s.mu
routeEvent_RLock(l) ==
  /\ loops[l].pc = "route"
  /\ kmu = "none"
  /\ loops' = [loops EXCEPT ![l].pc = "lookup"]
  /\ UNCHANGED <<running, ctxDone, closes, starts, handlers, kmu, kcall, broker, topics,
                 invocations, taken, kuuids, now, svcVars, rlVars, smVars, usVars, valVars>>

\* A loop that starts a handler only when the handlers it started before
\* have returned.
routeEvent_AwaitPrevious(l) ==
  LET found == Lookup(handlers, loops[l].event.EventType)
  IN  /\ loops[l].pc = "lookup"
      /\ \A k \in 1..Len(invocations) :
           invocations[k].topic = l[2] => invocations[k].state # "running"
      /\ loops' = [loops EXCEPT ![l].pc = "select", ![l].event = NoCrossServiceEvent]
      /\ invocations' =
           IF found.exists
           THEN Append(invocations, [topic   |-> l[2],
                                     off     |-> loops[l].off - 1,
                                     handler |-> found.handler,
                                     event   |-> loops[l].event,
                                     state   |-> "running"])
           ELSE invocations
      /\ UNCHANGED <<running, ctxDone, closes, starts, handlers, kmu, kcall, broker, topics,
                     taken, kuuids, now, svcVars, rlVars, smVars, usVars, valVars>>

\* routeEvent, lines 172-185: look the handler up, release the shared lock
\* and run the handler in a goroutine of its own
routeEvent(l) ==
  LET found == Lookup(handlers, loops[l].event.EventType)
  IN  /\ loops[l].pc = "lookup"
      /\ loops' = [loops EXCEPT ![l].pc = "select", ![l].event = NoCrossServiceEvent]
      /\ invocations' =
           IF found.exists
           THEN Append(invocations, [topic   |-> l[2],
                                     off     |-> loops[l].off - 1,
                                     handler |-> found.handler,
                                     event   |-> loops[l].event,
                                     state   |-> "running"])
           ELSE invocations
      /\ UNCHANGED <<running, ctxDone, closes, starts, handlers, kmu, kcall, broker, topics,
                     taken, kuuids, now, svcVars, rlVars, smVars, usVars, valVars>>

\* routeEvent, lines 181-185: the handler returns in its goroutine
Handler_Return(i, result) ==
  /\ i \in 1..Len(invocations)
  /\ invocations[i].state = "running"
  /\ result \in HandlerResults(invocations[i].handler)
  /\ invocations' = [invocations EXCEPT ![i].state = result]
  /\ UNCHANGED <<running, ctxDone, closes, starts, handlers, kmu, kcall, loops, broker, topics,
                 taken, kuuids, now, svcVars, rlVars, smVars, usVars, valVars>>

\* The broker appends a message to a topic.
Produce(topic, value) ==
  /\ topic \in topics
  /\ TotalMessages < MaxMsgs
  /\ broker' = [broker EXCEPT ![topic] = Append(@, value)]
  /\ UNCHANGED <<running, ctxDone, closes, starts, handlers, kmu, kcall, loops, topics,
                 invocations, taken, kuuids, now, svcVars, rlVars, smVars, usVars, valVars>>

\* NewKafkaConsumerService(brokers, tps), with an empty log on every topic
NewKafkaConsumerService(tps) ==
  /\ topics = tps
  /\ running = FALSE
  /\ ctxDone = FALSE
  /\ closes = 0
  /\ starts = 0
  /\ handlers = registerDefaultHandlers
  /\ kmu = "none"
  /\ kcall = [p \in KProcs |-> KIdle]
  /\ loops = [l \in LoopIds |-> NoLoop]
  /\ broker = [t \in KTopics |-> <<>>]
  /\ invocations = <<>>
  /\ taken = [m \in KTopics \X (1..MaxMsgs) |-> 0]
  /\ kuuids = 0

InitRouter == NewKafkaConsumerService(KTopics)

\* The steps of the router with the given callers, message values and
\* registered types.
NextRouterOf(procs, values, keys, hs) ==
  \/ \E p \in procs : Start_Lock(p) \/ Start_Check(p) \/ Start_Spawn(p)
  \/ \E p \in procs : Stop_Lock(p) \/ Stop_Body(p)
  \/ \E p \in procs, k \in keys, h \in hs : RegisterHandler_Lock(p, k, h)
  \/ \E p \in procs : RegisterHandler(p)
  \/ \E l \in LoopIds, reachable \in BOOLEAN : ConsumePartition(l, reachable)
  \/ \E l \in LoopIds : Loop_Done(l) \/ Loop_Error(l) \/ handleMessage(l)
  \/ \E l \in LoopIds : routeEvent_RLock(l) \/ routeEvent(l)
  \/ \E i \in 1..MaxMsgs, result \in {"nil", "error"} : Handler_Return(i, result)
  \/ \E t \in KTopics, v \in values : Produce(t, v)

\* Two callers starting and stopping a router of two topics that receives
\* login events; a caller may register the login handler again.
NextRouter ==
  NextRouterOf(KProcs, {Json(Str("auth.user.login"), Absent)},
               {"auth.user.login"}, {"handleAuthEvent"})

\* One caller and a router of one topic that receives every kind of message.
DispatchTopics == {"auth-events"}

NextDispatch == NextRouterOf({"k1"}, KPayloads, RegisterKeys, CallerHandlers)

\* One caller and a router of one topic that receives events of a type
\* whose handler, once a caller has registered it, can fail or never return.
NextHandlers ==
  NextRouterOf({"k1"}, {Json(Str("test.event"), Absent)},
               {"test.event"}, CallerHandlers)

vars == <<events, uuids, now, svc, requests, limit, window, mutex, rl, crashed,
          admitted, stable, sampleRates, rand, slast, sref, sothers, usage,
          registered, vlast,
          running, ctxDone, closes, starts, handlers, kmu, kcall, loops, broker, topics,
          invocations, taken, kuuids>>

Init ==
  /\ InitService /\ InitLimiter /\ InitSampler /\ InitUsage /\ InitValidator /\ InitRouter
  /\ now = 0

SpecService == Init /\ [][NextService]_vars

SpecLimiter == Init /\ [][NextLimiter]_vars

SpecPairs == Init /\ [][NextPairs]_vars

SpecSampler == Init /\ [][NextSampler]_vars

SpecUsage == Init /\ [][NextUsage]_vars

SpecValidator == Init /\ [][NextValidator]_vars

SpecStore == Init /\ [][NextStore]_vars

SpecRouter == Init /\ [][NextRouter]_vars

InitDispatch ==
  /\ InitService /\ InitLimiter /\ InitSampler /\ InitUsage /\ InitValidator /\ now = 0
  /\ NewKafkaConsumerService(DispatchTopics)

SpecDispatch == InitDispatch /\ [][NextDispatch]_vars

\* The scheduler runs every goroutine that can take a step: a spawned loop
\* connects or fails to, a loop that has a message to receive receives it, a
\* loop waiting for the shared lock gets it, a select that keeps finding the
\* context cancelled takes that case, and a caller inside Start, Stop or
\* RegisterHandler leaves it.  Nothing is assumed of the handlers,
\* the broker or the callers' decisions to call.
FairLoops ==
  /\ \A l \in LoopIds : /\ WF_vars(\E reachable \in BOOLEAN : ConsumePartition(l, reachable))
                         /\ WF_vars(handleMessage(l))
                         /\ SF_vars(routeEvent_RLock(l))
                         /\ WF_vars(routeEvent(l))
                         /\ WF_vars(Loop_Done(l))
  /\ \A p \in KProcs : /\ WF_vars(Start_Check(p))
                       /\ WF_vars(Start_Spawn(p))
                       /\ WF_vars(Stop_Body(p))
                       /\ WF_vars(RegisterHandler(p))

SpecHandlers == InitDispatch /\ [][NextHandlers]_vars /\ FairLoops

(***************************************************************************)
(* Properties of AnalyticsService (checked under SpecService)              *)
(***************************************************************************)
\* The schema the registry holds for the payload's event type.
SchemaOf(p) ==
  IF p["event_type"].v \in DOMAIN schemas
  THEN schemas[p["event_type"].v] ELSE schemas["generic"]

\* The payload has a string event_type, every required field of its schema
\* and only values of the declared type in the fields the schema declares.
PassesSchema(p) ==
  /\ Get(p, "event_type").k = "string"
  /\ \A i \in DOMAIN SchemaOf(p).RequiredFields : Has(p, SchemaOf(p).RequiredFields[i])
  /\ \A f \in DOMAIN p \cap DOMAIN SchemaOf(p).FieldTypes :
       p[f].k = SchemaOf(p).FieldTypes[f]

Returned(c, op) == svc[c].op = op /\ svc[c].pc = "returned"

Stored(e) == e.ID \in DOMAIN events /\ events[e.ID] = e

\* C1: whenever TrackEvent has returned for a payload that passes schema
\* validation, it returned no error and an event with a non-empty ID and a
\* non-empty BillingEventID whose EventType is the payload's event_type and
\* whose UserID is the userID argument, and that event is in the store under
\* its ID.
C1_ValidPayloadTracked ==
  \A c \in Callers :
    (Returned(c, "TrackEvent") /\ PassesSchema(svc[c].eventData)) =>
      /\ svc[c].err = Ok
      /\ ~svc[c].isNil
      /\ svc[c].event.ID # ""
      /\ svc[c].event.BillingEventID # ""
      /\ svc[c].event.EventType = svc[c].eventData["event_type"].v
      /\ svc[c].event.UserID = svc[c].userID
      /\ Stored(svc[c].event)

\* C1 witness: a valid payload whose own user_id differs from the userID
\* argument has been tracked.
C1_Witness ==
  \E c \in Callers :
    /\ Returned(c, "TrackEvent")
    /\ PassesSchema(svc[c].eventData)
    /\ svc[c].eventData["user_id"].v # svc[c].userID
    /\ Stored(svc[c].event)

\* C2: a TrackEvent call whose payload has no event_type, or a non-string
\* one, returns at once with a validation error and a nil event, and the
\* step leaves the event store as it was.
C2_BadEventTypeRejected ==
  [][\A c \in Callers :
       ( /\ svc[c].pc = "idle"
         /\ svc'[c].op = "TrackEvent"
         /\ Get(svc'[c].eventData, "event_type").k # "string" ) =>
       ( /\ svc'[c].pc = "returned"
         /\ svc'[c].err # Ok
         /\ svc'[c].isNil
         /\ events' = events )]_vars

\* C2 witness: a payload with event_type 123 was rejected while the store
\* already held an event.
C2_Witness ==
  \E c \in Callers :
    /\ Returned(c, "TrackEvent")
    /\ Get(svc[c].eventData, "event_type").k = "int"
    /\ svc[c].err # Ok
    /\ DOMAIN events # {}

\* C3: every event in the event store has a non-empty billing-event id.
C3_StoredEventsHaveBillingID ==
  \A id \in DOMAIN events : events[id].BillingEventID # ""

\* C3 witness: the store holds an event whose billing call failed and
\* another one whose billing call succeeded.
C3_Witness ==
  /\ Cardinality(DOMAIN events) = 2
  /\ \E c \in Callers :
       /\ Returned(c, "TrackEvent")
       /\ svc[c].billing = "usage_failed"
       /\ Stored(svc[c].event)

\* C4: a TrackEvent whose billing call failed (in either sub-call) still
\* returns no error and its event is in the store; and no step ever takes a
\* stored event out of the store or changes it.
C4_BillingFailureStillPersists ==
  /\ [](\A c \in Callers :
          (Returned(c, "TrackEvent") /\ svc[c].billing \in {"usage_failed", "event_failed"})
            => (svc[c].err = Ok /\ ~svc[c].isNil /\ Stored(svc[c].event)))
  /\ [][\A id \in DOMAIN events :
          id \in DOMAIN events' /\ events'[id] = events[id]]_vars

\* C4 witness: TrackEvent has returned after the billing-event POST failed.
C4_Witness ==
  \E c \in Callers :
    /\ Returned(c, "TrackEvent")
    /\ svc[c].billing = "event_failed"
    /\ Stored(svc[c].event)

\* C5: TrackAPIUsage returns an error exactly when its billing call failed.
C5_UsageReportsBillingFailure ==
  \A c \in Callers :
    Returned(c, "TrackAPIUsage") => ((svc[c].err # Ok) <=> (svc[c].billing # "nil"))

\* C5 witness: TrackAPIUsage has returned an error after a failed billing call.
C5_Witness ==
  \E c \in Callers :
    Returned(c, "TrackAPIUsage") /\ svc[c].billing = "usage_failed" /\ svc[c].err # Ok

\* C6 as claimed: a page_view payload with a string event_type and no
\* user_id key (page and properties optional) is tracked successfully.
C6_PageViewWithoutUserID ==
  \A c \in Callers :
    ( /\ Returned(c, "TrackEvent")
      /\ Get(svc[c].eventData, "event_type") = Str("page_view")
      /\ ~Has(svc[c].eventData, "user_id")
      /\ Get(svc[c].eventData, "page").k \in {"absent", "string"}
      /\ Get(svc[c].eventData, "properties").k \in {"absent", "map"} ) =>
    ( /\ svc[c].err = Ok
      /\ svc[c].event.EventType = "page_view"
      /\ svc[c].event.ID # ""
      /\ svc[c].event.BillingEventID # "" )

(***************************************************************************)
(* Properties of RateLimiter (checked under SpecLimiter)                   *)
(***************************************************************************)
\* The number of the timestamps in times that lie inside the window w at
\* time t: less than w has elapsed since them.
InWindow(times, t, w) == Cardinality({i \in 1..Len(times) : t - times[i] < w})

\* C7: with the limit and the window fixed since the key's first admission,
\* an AllowRequest call is admitted exactly when fewer than limit of the
\* key's admitted calls lie in the window that ends at the call: the first
\* N calls of a window are admitted, the (N+1)-th is rejected, and a call
\* after the window has elapsed since the admitted calls is admitted again.
C7_LimitPerWindow ==
  [][\A p \in LProcs :
       (rl[p].pc = "ar_locked" /\ rl'[p].pc = "returned" /\ stable)
         => LET key == Key(rl[p].userID, rl[p].endpoint)
            IN  rl'[p].allowed = (InWindow(admitted[key], now, window) < limit)]_vars

\* With limit 2, one goroutine holds a rejection and the other an admission
\* of the same key, two admitted calls of that key have left the window and
\* the third, made after it elapsed, is inside.
C7_Witness ==
  \E p \in LProcs, q \in LProcs :
    /\ p # q /\ stable /\ ~crashed /\ limit = 2
    /\ rl[p].op = "AllowRequest" /\ rl[p].pc = "returned" /\ ~rl[p].allowed
    /\ rl[q].op = "AllowRequest" /\ rl[q].pc = "returned" /\ rl[q].allowed
    /\ rl[p].userID = rl[q].userID /\ rl[p].endpoint = rl[q].endpoint
    /\ LET key == Key(rl[q].userID, rl[q].endpoint)
       IN  /\ Len(admitted[key]) = limit + 1
           /\ InWindow(admitted[key], now, window) = 1

\* The goroutine's next step writes r.requests.
Writing(p) == rl[p].pc \in {"ar_locked", "gr_write"}

\* The goroutine is inside a method that reads or writes r.requests.
Accessing(p) == rl[p].pc \in {"ar_locked", "gr_cleanup", "gr_write", "gr_len"}

\* C8: no call writes the request-timestamp map while another call is
\* reading or writing it.
C8_WritesAreExclusive ==
  \A p \in LProcs, q \in LProcs : (p # q /\ Writing(p)) => ~Accessing(q)

\* C9: GetRemainingRequests returns max(0, limit - c), c being the number
\* of the key's recorded timestamps inside the window at the time of the
\* call; the result is never negative, and no step of the call changes the
\* number of in-window timestamps recorded for any key.
C9_RemainingIsLimitMinusInWindow ==
  [][\A p \in LProcs :
       /\ (rl[p].pc = "gr_len" /\ rl'[p].pc = "returned")
            => LET key == Key(rl[p].userID, rl[p].endpoint)
                   c   == InWindow(RequestsOf(requests, key), rl[p].t, window)
               IN  /\ rl'[p].remaining = (IF limit - c < 0 THEN 0 ELSE limit - c)
                   /\ rl'[p].remaining >= 0
       /\ (rl[p].op = "GetRemainingRequests" /\ rl'[p] # rl[p])
            => \A k \in LKeys :
                 InWindow(RequestsOf(requests', k), now, window)
                   = InWindow(RequestsOf(requests, k), now, window)]_vars

\* The timestamps of times that are not older than the window w at time t.
NotOlderThanWindow(times, t, w) == SelectSeq(times, LAMBDA reqTime : reqTime >= t - w)

\* C35: after every purge pass, of AllowRequest at time now or of
\* GetRemainingRequests at the time of its call, the key's sequence holds
\* exactly the previous timestamps t with t >= now - window (followed by now
\* when AllowRequest admits): a timestamp equal to now - window stays.
C35_PurgeKeepsWindowInclusive ==
  [][\A p \in LProcs :
       LET key == Key(rl[p].userID, rl[p].endpoint)
       IN  /\ (rl[p].pc = "ar_locked" /\ rl'[p].pc = "returned")
                => LET kept == NotOlderThanWindow(RequestsOf(requests, key), now, window)
                   IN  RequestsOf(requests', key)
                         = IF rl'[p].allowed THEN Append(kept, now) ELSE kept
           /\ (rl[p].pc = "gr_cleanup" /\ rl'[p].pc = "gr_write")
                => rl'[p].valid = NotOlderThanWindow(requests[key], rl[p].t, window)]_vars

\* C36: in every reachable state of the limiter the number of timestamps
\* recorded for any key is at most the current limit, and an AllowRequest
\* that is rejected records no timestamp.
C36_CountWithinLimit ==
  /\ [](\A k \in DOMAIN requests : Len(requests[k]) <= limit)
  /\ [][\A p \in LProcs :
          (rl[p].pc = "ar_locked" /\ rl'[p].pc = "returned" /\ ~rl'[p].allowed)
            => LET key == Key(rl[p].userID, rl[p].endpoint)
               IN  /\ admitted' = admitted
                   /\ RequestsOf(requests', key)
                        = ValidRequests(RequestsOf(requests, key), now, window)]_vars

\* The pair a caller's current call is for.
PairOf(p) == <<rl[p].userID, rl[p].endpoint>>

\* C37: a call for one (user, endpoint) pair changes nothing of what is
\* recorded for a different pair, whose admitted count and next decision
\* are computed from it, also when the ids contain ':'.
C37_PairsAreIndependent ==
  [][\A p \in LProcs :
       (rl[p].pc \in {"ar_locked", "gr_write"} /\ rl'[p] # rl[p])
         => \A pr \in ColonPairs :
              pr # PairOf(p)
                => RequestsOf(requests', Key(pr[1], pr[2]))
                     = RequestsOf(requests, Key(pr[1], pr[2]))]_vars

(***************************************************************************)
(* Properties of RequestSampler (checked under SpecSampler)                *)
(***************************************************************************)
\* C10: two ShouldSample calls with the same configured rate, userID and
\* endpoint return the same boolean, however many calls came before, whatever
\* pairs those were for and whatever the state of the random source.
C10_SameDecisionForSameQuestion ==
  (sref.op = "ShouldSample" /\ slast.op = "ShouldSample" /\ SameQuestion(sref, slast))
    => slast.sampled = sref.sampled

\* Two calls with the same rate strictly between 0 and 1 and the same pair,
\* made on samplers with different random sources, with a call unlike them
\* in between.
C10_Witness ==
  /\ sref.op = "ShouldSample" /\ slast.op = "ShouldSample"
  /\ SameQuestion(sref, slast)
  /\ sref.cfg.set /\ sref.cfg.rate > 0 /\ sref.cfg.rate < RateUnit
  /\ sref.rand # slast.rand
  /\ sothers
  /\ slast.sampled

\* C11: a ShouldSample call for an endpoint whose rate is set to 1.0 returns
\* true, and one for an endpoint whose rate is set to 0.0 returns false,
\* for every user.
C11_RateOneAlwaysRateZeroNever ==
  (slast.op = "ShouldSample" /\ slast.cfg.set)
    => /\ (slast.cfg.rate = RateUnit => slast.sampled)
       /\ (slast.cfg.rate = 0 => ~slast.sampled)

\* The value is a rate between 0.0 and 1.0.
InUnitInterval(rate) == FLe(0, rate) /\ FLe(rate, RateUnit)

\* C33 as claimed: every rate the sampler stores, and every rate
\* GetSampleRate has returned, lies between 0.0 and 1.0.
C33_RatesInUnitInterval ==
  /\ \A e \in DOMAIN sampleRates : InUnitInterval(sampleRates[e])
  /\ slast.op = "GetSampleRate" => InUnitInterval(slast.rate)

\* C34 as claimed: after SetGlobalSampleRate(r), for a number r,
\* GetSampleRate returns r clamped to [0, 1] for every endpoint, whether a
\* rate was set for it before the call or not.
C34_GlobalRateForAllEndpoints ==
  [][\A r \in RateArgs \ {NaN} :
       SetGlobalSampleRate(r)
         => \A e \in SEndpoints : GetSampleRate(sampleRates', e) = Clamp(r)]_vars

\* C38 as claimed: of two ShouldSample calls for the same user and endpoint
\* made while the endpoint's rate was set to r1 and then to r2, with
\* 0 <= r1 <= r2 <= 1 or the other way round, the one made under the higher
\* rate returns true whenever the one made under the lower rate does.
C38_MonotoneInRate ==
  ( /\ sref.op = "ShouldSample" /\ slast.op = "ShouldSample"
    /\ sref.userID = slast.userID /\ sref.endpoint = slast.endpoint
    /\ sref.cfg.set /\ slast.cfg.set
    /\ InUnitInterval(sref.cfg.rate) /\ InUnitInterval(slast.cfg.rate) )
  => /\ (sref.cfg.rate <= slast.cfg.rate /\ sref.sampled) => slast.sampled
     /\ (slast.cfg.rate <= sref.cfg.rate /\ slast.sampled) => sref.sampled

(***************************************************************************)
(* Properties of GetUsage (checked under SpecUsage)                        *)
(***************************************************************************)
\* The step is a GetUsage call that returns a summary.
UsageReturned == usage' # usage /\ usage'.op = "GetUsage" /\ usage'.err = Ok

\* The stored events of the user stamped in [start, end + 24h).
InBounds(evs, userID, start, end) ==
  {id \in DOMAIN evs :
     /\ evs[id].UserID = userID
     /\ start <= evs[id].Timestamp
     /\ evs[id].Timestamp < end + Day}

\* C12: GetUsage counts a stored event iff its user id is the one asked for
\* and its timestamp t satisfies start <= t < end + 24h.
C12_CountsEventsInBounds ==
  [][UsageReturned
       => LET ids == InBounds(events, usage'.userID, ParseDate(usage'.start).t,
                              ParseDate(usage'.end).t)
          IN  /\ usage'.TotalEvents = Cardinality(ids)
              /\ usage'.EventsByType = CountByType(events, ids)]_vars

\* C13: a GetUsage call with the user id and the bounds of the call before
\* it, on the store that call saw, returns the same TotalEvents,
\* EventsByType, TotalCost and CostBreakdown; no GetUsage call changes the
\* store.
C13_RepeatedUsageIsIdentical ==
  [][/\ (usage'.op = "GetUsage" /\ usage.op = "GetUsage"
           /\ usage'.userID = usage.userID /\ usage'.start = usage.start
           /\ usage'.end = usage.end /\ usage'.ids = usage.ids)
          => /\ usage'.TotalEvents = usage.TotalEvents
             /\ usage'.EventsByType = usage.EventsByType
             /\ usage'.BillingSummary.TotalCost = usage.BillingSummary.TotalCost
             /\ usage'.BillingSummary.CostBreakdown = usage.BillingSummary.CostBreakdown
     /\ (usage' # usage => events' = events)]_vars

RECURSIVE SumUnits(_, _)
SumUnits(costs, types) ==
  IF types = {} THEN 0
  ELSE LET t == CHOOSE x \in types : TRUE
       IN  costs[t].units + SumUnits(costs, types \ {t})

\* C14: when the bounds contain every event tracked for the user, TotalEvents
\* is the number of those events, EventsByType their number per type,
\* CostBreakdown has the keys of EventsByType with cost count x rate, and
\* TotalCost is the sum of the breakdown, in units of 0.0001.
C14_UsageTotalsAndCosts ==
  [][UsageReturned
       => LET start  == ParseDate(usage'.start).t
              end    == ParseDate(usage'.end).t
              ofUser == {id \in DOMAIN events : events[id].UserID = usage'.userID}
              byType == CountByType(events, ofUser)
              costs  == usage'.BillingSummary.CostBreakdown
          IN  (\A id \in ofUser : start <= events[id].Timestamp
                                   /\ events[id].Timestamp < end + Day)
                => /\ usage'.TotalEvents = Cardinality(ofUser)
                   /\ usage'.EventsByType = byType
                   /\ DOMAIN costs = DOMAIN byType
                   /\ \A t \in DOMAIN byType :
                        costs[t].units = byType[t] * PriceOf(t)
                   /\ usage'.BillingSummary.TotalCost.units
                        = SumUnits(costs, DOMAIN costs)]_vars

(***************************************************************************)
(* Properties of KafkaConsumerService (checked under SpecRouter for the    *)
(* life cycle, under SpecDispatch for the routing of messages and under    *)
(* SpecHandlers for what needs fair scheduling)                            *)
(***************************************************************************)

\* The Start() calls whose goroutines exist.
SpawnedRuns == {n \in 1..MaxStarts : \E t \in KTopics : loops[<<n, t>>].pc # "none"}

\* C15: a Start() that finds the router running returns the already-running
\* error and changes nothing: the router stays running and no loop is
\* spawned.  Of concurrent Start() calls on a stopped router one succeeds:
\* a second one succeeds only after a Stop() has stopped the router, and
\* loops are spawned only by the calls that succeeded, one per topic.
C15_StartWhileRunningRejected ==
  /\ [](/\ starts <= closes + 1
        /\ Cardinality(SpawnedRuns) <= starts
        /\ \A n \in SpawnedRuns : \A t \in KTopics : loops[<<n, t>>].pc # "none" <=> t \in topics)
  /\ [][\A p \in KProcs :
          (kcall[p].pc = "start_locked" /\ kcall'[p].pc # "start_locked" /\ running)
            => /\ kcall'[p].pc = "idle"
               /\ kcall'[p].ret = "already_running"
               /\ running'
               /\ UNCHANGED <<starts, loops, ctxDone, closes, handlers, broker, invocations>>]_vars

\* C15 witness: one caller's Start() was rejected while the other caller's
\* Start(), which found the router stopped, is still in progress.
C15_Witness ==
  \E p, q \in KProcs :
    /\ kcall[p].pc = "idle" /\ kcall[p].ret = "already_running"
    /\ kcall[q].pc = "start_spawn"
    /\ running /\ starts = 1 /\ closes = 0

InvocationsOf(topic, off) ==
  {k \in 1..Len(invocations) : invocations[k].topic = topic /\ invocations[k].off = off}

\* The messages the broker holds.
Messages == {m \in KTopics \X (1..MaxMsgs) : m[2] <= Len(broker[m[1]])}

DecodedType(m) == Unmarshal(broker[m[1]][m[2]]).event.EventType

Decodable(m) == Unmarshal(broker[m[1]][m[2]]).ok

\* The handlers that are registered for a type at some time of a run.
RegisteredFor(eventType) ==
  (IF eventType \in DOMAIN registerDefaultHandlers
   THEN {registerDefaultHandlers[eventType]} ELSE {})
  \cup (IF eventType \in RegisterKeys THEN CallerHandlers ELSE {})

\* The loop l routes the event it holds.
Routes(l) == loops[l].pc = "lookup" /\ loops'[l].pc # "lookup"

\* C17: routing a decoded event whose type is a key of the registry starts
\* exactly one handler goroutine, that of the handler registered for this
\* key.  No message has more than one invocation, and every invocation is
\* of a handler registered for exactly the type of its message: a type that
\* only starts with a key, or that a key starts with, selects nothing.
C17_ExactTypeOneHandler ==
  /\ [](\A m \in Messages :
          /\ Cardinality(InvocationsOf(m[1], m[2])) <= 1
          /\ \A k \in InvocationsOf(m[1], m[2]) :
               /\ Decodable(m)
               /\ invocations[k].event.EventType = DecodedType(m)
               /\ invocations[k].handler \in RegisteredFor(DecodedType(m)))
  /\ [][\A l \in LoopIds :
          (Routes(l) /\ loops[l].event.EventType \in DOMAIN handlers)
            => /\ Len(invocations') = Len(invocations) + 1
               /\ SubSeq(invocations', 1, Len(invocations)) = invocations
               /\ LET new == invocations'[Len(invocations')]
                  IN  /\ new.handler = handlers[loops[l].event.EventType]
                      /\ new.topic = l[2]
                      /\ new.off = loops[l].off - 1
                      /\ new.event = loops[l].event]_vars

\* C17 witness: a login event went to the auth handler, and the loop has
\* passed an "auth.user.login.failed" event without starting a handler.
C17_Witness ==
  /\ \E k \in 1..Len(invocations) :
       /\ invocations[k].handler = "handleAuthEvent"
       /\ invocations[k].event.EventType = "auth.user.login"
  /\ \E m \in Messages :
       /\ Decodable(m) /\ DecodedType(m) = "auth.user.login.failed"
       /\ taken[m] = 1
       /\ InvocationsOf(m[1], m[2]) = {}
       /\ \A l \in LoopIds : loops[l].pc \notin {"route", "lookup"}

\* C18: routing an event whose type is not a key of the registry starts no
\* handler and leaves the loop selecting, at the next message of its topic;
\* a message whose type is not registered has no invocation.
C18_UnregisteredTypeDropped ==
  /\ [](\A m \in Messages :
          (Decodable(m) /\ DecodedType(m) \notin DOMAIN handlers)
            => InvocationsOf(m[1], m[2]) = {})
  /\ [][\A l \in LoopIds :
          (Routes(l) /\ loops[l].event.EventType \notin DOMAIN handlers)
            => /\ invocations' = invocations
               /\ loops'[l].pc = "select"
               /\ loops'[l].off = loops[l].off
               /\ UNCHANGED <<running, ctxDone>>]_vars

\* C18 witness: a loop dropped the first message of its topic, of a type
\* with no handler, and then dispatched the second.
C18_Witness ==
  \E l \in LoopIds :
    /\ loops[l].pc = "select" /\ loops[l].off = 3
    /\ Decodable(<<l[2], 1>>) /\ DecodedType(<<l[2], 1>>) \notin DOMAIN handlers
    /\ taken[<<l[2], 1>>] = 1
    /\ InvocationsOf(l[2], 1) = {}
    /\ InvocationsOf(l[2], 2) # {}

\* C19: receiving a message that cannot be decoded starts no handler and
\* leaves the loop selecting at the next offset; no message is received
\* more than once and an undecodable message has no invocation.
C19_UndecodableDroppedOnce ==
  /\ [](\A m \in Messages :
          /\ taken[m] <= 1
          /\ ~Decodable(m) => InvocationsOf(m[1], m[2]) = {})
  /\ [][\A l \in LoopIds :
          LET m == <<l[2], loops[l].off>>
          IN  (m \in Messages /\ taken'[m] # taken[m] /\ loops'[l] # loops[l] /\ ~Decodable(m))
                => /\ invocations' = invocations
                   /\ loops'[l].pc = "select"
                   /\ loops'[l].off = loops[l].off + 1
                   /\ UNCHANGED <<running, ctxDone>>]_vars

\* C19 witness: a loop received an undecodable first message once and then
\* dispatched the second message of its topic.
C19_Witness ==
  \E l \in LoopIds :
    /\ loops[l].pc = "select" /\ loops[l].off = 3
    /\ ~Decodable(<<l[2], 1>>)
    /\ taken[<<l[2], 1>>] = 1
    /\ InvocationsOf(l[2], 1) = {}
    /\ InvocationsOf(l[2], 2) # {}

\* The loop l is connected and the message at offset i of its topic has
\* been delivered to it and not yet received.
Delivered(l, i) ==
  /\ loops[l].pc \notin {"none", "spawned", "failed", "exited"}
  /\ loops[l].off <= i
  /\ i <= Len(broker[l[2]])

\* The loop l has received and routed the message at offset i.
Routed(l, i) ==
  /\ loops[l].off > i
  /\ loops[l].pc \in {"route", "lookup"} => loops[l].off > i + 1

\* A handler started for the topic of l has failed or has not returned.
BadHandler(l) ==
  \E k \in 1..Len(invocations) :
    invocations[k].topic = l[2] /\ invocations[k].state \in {"running", "error"}

\* C20: a handler that returns, with an error or without, changes neither
\* the running state nor any loop; and while a handler of its topic has
\* failed or has not returned, a loop still receives and routes every
\* message delivered to it, unless the router is stopped first.  Handlers
\* are not required ever to return.
C20_BadHandlerNeverStallsLoop ==
  /\ [][\A k \in 1..Len(invocations) :
          invocations'[k].state # invocations[k].state
            => UNCHANGED <<running, ctxDone, closes, loops, handlers, kmu>>]_vars
  /\ \A l \in LoopIds : \A i \in 1..MaxMsgs :
       (Delivered(l, i) /\ BadHandler(l)) ~> (Routed(l, i) \/ ctxDone)

\* C20 witness: the handler of the first message of a topic returned an
\* error, the router is still running, and the second message of the topic
\* has been dispatched.
C20_Witness ==
  \E k1, k2 \in 1..Len(invocations) :
    /\ invocations[k1].topic = invocations[k2].topic
    /\ invocations[k1].off = 1 /\ invocations[k1].state = "error"
    /\ invocations[k2].off = 2
    /\ running /\ ~ctxDone


\* The correlation ids handleMessage has generated.
GeneratedIDs == {"kuuid-" \o ToString(n) : n \in 1..kuuids}

\* The correlation_id of the message a handler was started for, as sent.
SentCorrelationID(k) == broker[invocations[k].topic][invocations[k].off].correlation_id

\* C23: the event of every handler invocation, and every event a loop is
\* about to route, has a non-empty correlation id: the id of the message
\* when the message came with a non-empty one, and otherwise a generated id
\* that no other invocation has.
C23_CorrelationIDAlwaysSet ==
  /\ \A k \in 1..Len(invocations) :
       /\ invocations[k].event.CorrelationID # ""
       /\ IF SentCorrelationID(k).k = "string" /\ SentCorrelationID(k).v # ""
          THEN invocations[k].event.CorrelationID = SentCorrelationID(k).v
          ELSE /\ invocations[k].event.CorrelationID \in GeneratedIDs
               /\ \A j \in 1..Len(invocations) :
                    j # k => invocations[j].event.CorrelationID #
                               invocations[k].event.CorrelationID
  /\ \A l \in LoopIds :
       loops[l].pc \in {"route", "lookup"} => loops[l].event.CorrelationID # ""

\* C23 witness: one handler was started for a message that came with the
\* correlation id "corr-1" and another for a message whose correlation id
\* was the empty string.
C23_Witness ==
  \E j, k \in 1..Len(invocations) :
    /\ SentCorrelationID(j) = Str("corr-1")
    /\ invocations[j].event.CorrelationID = "corr-1"
    /\ SentCorrelationID(k) = Str("")
    /\ invocations[k].event.CorrelationID \in GeneratedIDs

\* C24: the handlers of one topic are started in the order of the offsets
\* of their messages; a loop that holds the shared lock can always dispatch
\* and a connected loop with a message waiting can always receive it,
\* whatever the handlers started before are doing; and dispatching leaves
\* the loop selecting.
C24_InOrderWithoutWaiting ==
  /\ [](\A j, k \in 1..Len(invocations) :
          (j < k /\ invocations[j].topic = invocations[k].topic)
            => invocations[j].off < invocations[k].off)
  /\ [](\A l \in LoopIds :
          /\ loops[l].pc = "lookup" => ENABLED routeEvent(l)
          /\ (loops[l].pc = "select" /\ loops[l].off <= Len(broker[l[2]]))
               => ENABLED handleMessage(l))
  /\ [][\A l \in LoopIds : Routes(l) => loops'[l].pc = "select"]_vars

\* C24 witness: the handler of a later message of a topic has returned while
\* the handler of an earlier message of the same topic is still running.
C24_Witness ==
  \E j, k \in 1..Len(invocations) :
    /\ invocations[j].topic = invocations[k].topic
    /\ invocations[j].off < invocations[k].off
    /\ invocations[j].state = "running"
    /\ invocations[k].state = "nil"

\* The loop l has been spawned and has not returned.
LoopAlive(l) == loops[l].pc \in {"spawned", "select", "route", "lookup"}

\* C25: under fair scheduling, once a Stop() has stopped a running router,
\* every loop that is alive (not yet connected, waiting in its select, or
\* handling a message) eventually returns.
C25_LoopsEndAfterStop ==
  \A l \in LoopIds : (closes > 0 /\ LoopAlive(l)) ~> ~LoopAlive(l)

\* C25 witness: the router was stopped once; the loop of its first run left
\* its select on the cancelled context after it had handled a message, and
\* the loop of a later Start() found the connection closed and returned.
C25_Witness ==
  /\ closes = 1
  /\ \E t \in KTopics :
       /\ loops[<<1, t>>].pc = "exited" /\ loops[<<1, t>>].off > 1
       /\ loops[<<2, t>>].pc = "failed"

\* C26: a caller that holds the lock inside Stop() can always complete it,
\* whatever the handlers are doing, and completing it changes no handler
\* invocation; a caller can enter Stop() whenever s.mu is free.
C26_StopNeverWaitsForHandlers ==
  /\ [](\A p \in KProcs :
          /\ kcall[p].pc = "stop_locked" => ENABLED Stop_Body(p)
          /\ (kcall[p].pc = "idle" /\ kmu = "none" /\ Readers = {})
               => ENABLED Stop_Lock(p))
  /\ [][\A p \in KProcs :
          (kcall[p].pc = "stop_locked" /\ kcall'[p].pc = "idle")
            => invocations' = invocations]_vars

\* C26 witness: Stop() has returned after stopping the router and a handler
\* is still running.
C26_Witness ==
  /\ ~running /\ ctxDone /\ closes = 1
  /\ \E p \in KProcs : kcall[p].pc = "idle" /\ kcall[p].ret = "stopped"
  /\ \E k \in 1..Len(invocations) : invocations[k].state = "running"

\* C27: the step that completes RegisterHandler(t, h) makes h the handler of
\* t and leaves the handler of every other type as it was; the registry
\* changes in no other step; an event of a registered type is dispatched to
\* the handler the registry holds for it at that moment; and no loop holds
\* the shared lock while a caller holds the exclusive one.
C27_RegisterReplacesAtomically ==
  /\ [][\A p \in KProcs :
          (kcall[p].pc = "register_locked" /\ kcall'[p].pc = "idle")
            => LET t == kcall[p].arg[1]
                   h == kcall[p].arg[2]
               IN  /\ DOMAIN handlers' = DOMAIN handlers \cup {t}
                   /\ handlers'[t] = h
                   /\ \A u \in DOMAIN handlers \ {t} : handlers'[u] = handlers[u]]_vars
  /\ [][handlers' # handlers
          => \E p \in KProcs : kmu = p /\ kcall[p].pc = "register_locked"]_vars
  /\ [][\A l \in LoopIds :
          (Routes(l) /\ loops[l].event.EventType \in DOMAIN handlers)
            => invocations'[Len(invocations')].handler =
                 handlers[loops[l].event.EventType]]_vars
  /\ [](kmu # "none" => Readers = {})

\* C27 witness: a login event went to the default handler, a caller then
\* registered another handler for the type, and the next login event went to
\* the new handler.
C27_Witness ==
  \E j, k \in 1..Len(invocations) :
    /\ j < k
    /\ invocations[j].event.EventType = "auth.user.login"
    /\ invocations[k].event.EventType = "auth.user.login"
    /\ invocations[j].handler = "handleAuthEvent"
    /\ invocations[k].handler = "testHandler"
    /\ handlers["auth.user.login"] = "testHandler"

\* C39 as claimed: while the router is running and no Start() is still
\* spawning, every configured topic has a live loop of the latest successful
\* Start(); each successful Start() spawns loops for exactly the configured
\* topics; and a loop returns only once the context has been cancelled.
C39_RunningHasLiveLoops ==
  /\ [](\A n \in SpawnedRuns : \A t \in KTopics :
          loops[<<n, t>>].pc # "none" <=> t \in topics)
  /\ []((running /\ \A p \in KProcs : kcall[p].pc # "start_spawn")
          => \A t \in topics : LoopAlive(<<starts, t>>))
  /\ [][\A l \in LoopIds : (LoopAlive(l) /\ ~LoopAlive(l)') => ctxDone]_vars

\* C40 as claimed: once a Stop() has stopped the router and returned, no
\* loop receives a message and no handler is started.
C40_NoDispatchAfterStop ==
  [][(~running /\ ctxDone)
       => (Len(invocations') = Len(invocations) /\ taken' = taken)]_vars

(***************************************************************************)
(* Properties of BillingClient and SchemaValidator (checked under          *)
(* SpecService)                                                            *)
(***************************************************************************)
\* The POSTs a returned call made its billing client send.
PostsSent(c) == {svc[c].posts[i].post : i \in DOMAIN svc[c].posts}

FailedPosts(c) == {i \in DOMAIN svc[c].posts : svc[c].posts[i].result # "nil"}

\* C28 as claimed: every TrackAPICall that has returned sent both the usage
\* POST and the billing-event POST, and it returned an error exactly when
\* one of its POSTs failed.
C28_BothPostsAttempted ==
  \A c \in Callers :
    (svc[c].pc = "returned" /\ svc[c].billing # "none") =>
      /\ PostsSent(c) = {"usage", "event"}
      /\ (svc[c].billing # "nil") <=> (FailedPosts(c) # {})

\* C29 as claimed: every TrackAPIUsage that has returned built a billing
\* event whose amount is the cost of its endpoint and method and whose
\* currency is USD, also when the forward call failed.
C29_BillingEventAlwaysLogged ==
  \A c \in Callers :
    Returned(c, "TrackAPIUsage") =>
      /\ svc[c].billingEvent # NoBillingEvent
      /\ svc[c].billingEvent.Amount = calculateAPICallCost(svc[c].endpoint, svc[c].method)
      /\ svc[c].billingEvent.Currency = "USD"

\* The fields every registered schema requires.
RequiredByAll ==
  {f \in SchemaFields :
     \A t \in DOMAIN schemas :
       \E i \in DOMAIN schemas[t].RequiredFields : schemas[t].RequiredFields[i] = f}

\* The fields of the payload whose value has not the type some schema declares
\* for its event type (the generic schema when event_type names none).
WronglyTyped(p) ==
  LET types == IF Get(p, "event_type").k = "string"
               THEN SchemaOf(p).FieldTypes ELSE schemas["generic"].FieldTypes
  IN  {f \in DOMAIN p \cap DOMAIN types : ~validateFieldType(p[f], types[f])}

\* C30 as claimed: a TrackEvent payload in which a required field is
\* missing is rejected with the missing-field error, whatever else is wrong
\* with it; a payload with every required field and a wrongly typed field is
\* rejected with the type error.
C30_RequiredThenTypesThenRules ==
  \A c \in Callers :
    Returned(c, "TrackEvent") =>
      LET p == svc[c].eventData
          missing == {f \in RequiredByAll : ~Has(p, f)}
      IN  /\ (missing # {} /\ Has(p, "event_type")) =>
               (svc[c].err.kind = "missing_field" /\ svc[c].err.field \in missing)
          /\ (missing # {} /\ ~Has(p, "event_type")) =>
               (svc[c].err.kind \in {"missing_field", "event_type_required"})
          /\ (missing = {} /\ WronglyTyped(p) # {} /\ Get(p, "event_type").k = "string") =>
               (svc[c].err.kind = "wrong_type" /\ svc[c].err.field \in WronglyTyped(p))

\* The keys enrichEventData fills in, with the values it gives them at time
\* t when the uuid it draws is sessionUuid.
EnrichDefaults(t, sessionUuid) == enrichEventData(EmptyPayload, t, sessionUuid)

\* C32: TrackEvent, whether it succeeds or fails, leaves the map the caller
\* passed with the keys and values it had; in the enriched copy every key of
\* the caller keeps the caller's value and every other key is one of
\* timestamp, session_id, ip_address, user_agent, source and properties.
C32_CallerDataLeftAlone ==
  \A c \in Callers :
    (svc[c].op = "TrackEvent" /\ svc[c].pc # "idle") =>
      /\ svc[c].callerMap = svc[c].eventData
      /\ ~svc[c].isNil =>
           /\ \A f \in DOMAIN svc[c].eventData : svc[c].enriched[f] = svc[c].eventData[f]
           /\ DOMAIN svc[c].enriched
                = DOMAIN svc[c].eventData \cup DOMAIN EnrichDefaults(0, "")
           /\ \A f \in DOMAIN svc[c].enriched \ DOMAIN svc[c].eventData :
                \E t \in 0..MaxTime, n \in 1..MaxUuids :
                  svc[c].enriched[f] = EnrichDefaults(t, UuidString(n))[f]

\* A TrackEvent has returned its event for a payload that brought its own
\* session_id and no source: the copy has the caller's session_id and the
\* default source, the caller's map still has no source.
C32_Witness ==
  \E c \in Callers :
    /\ Returned(c, "TrackEvent") /\ ~svc[c].isNil
    /\ Has(svc[c].eventData, "session_id") /\ ~Has(svc[c].eventData, "source")
    /\ svc[c].enriched["session_id"] = Str("s-1")
    /\ svc[c].enriched["source"] = Str("api")
    /\ ~Has(svc[c].callerMap, "source")

(***************************************************************************)
(* Properties of SchemaValidator (checked under SpecValidator)             *)
(***************************************************************************)
\* What is wrong with the payload for the validator whose s.schemas is
\* registry: the event type that is no string, or else the missing required
\* fields, the wrongly typed fields and the broken custom rules of the schema.
Violations(registry, p) ==
  IF Get(p, "event_type").k # "string"
  THEN {Err("event_type_required", "event_type")}
  ELSE LET schema == IF p["event_type"].v \in DOMAIN registry
                     THEN registry[p["event_type"].v] ELSE registry["generic"]
       IN  {Err("missing_field", schema.RequiredFields[i]) :
              i \in {j \in DOMAIN schema.RequiredFields : ~Has(p, schema.RequiredFields[j])}}
             \cup (validateFieldTypes(p, schema.FieldTypes) \ {Ok})
             \cup (applyCustomRules(p, schema.CustomRules) \ {Ok})

\* C31: for every registered schema and every payload, GetValidationErrors
\* returns the empty list exactly when ValidateEvent accepts the payload, and
\* its list holds every missing required field, every field-type violation
\* and every custom-rule violation of the payload.
C31_CollectsAllViolations ==
  vlast.op = "GetValidationErrors" =>
    LET registry == SchemasOf(vlast.schemas)
        p == vlast.eventData
    IN  /\ (vlast.errors = <<>>) <=> (ValidateEventOn(registry, p) = {Ok})
        /\ \A e \in Violations(registry, p) :
             \E i \in DOMAIN vlast.errors : vlast.errors[i] = e

(***************************************************************************)
(* Properties of AnalyticsService under concurrent callers (checked under  *)
(* SpecStore)                                                              *)
(***************************************************************************)
\* C21 as claimed: while a TrackEvent writes the event map, no other
\* TrackEvent writes it and no GetUsage scans it.
C21_EventMapAccessesExclusive ==
  \A c \in Callers :
    svc[c].pc = "writing" => (MapWriters(c) = {} /\ MapScanners(c) = {})

\* C22 as claimed: no step removes an event from the store or changes the
\* id, event type, user id, timestamp or billing-event id of a stored event,
\* and every step in which a TrackEvent returns an event makes the store one
\* entry larger.
C22_StoreIsInsertOnly ==
  [][ /\ \A id \in DOMAIN events :
           /\ id \in DOMAIN events'
           /\ events'[id].ID = events[id].ID
           /\ events'[id].EventType = events[id].EventType
           /\ events'[id].UserID = events[id].UserID
           /\ events'[id].Timestamp = events[id].Timestamp
           /\ events'[id].BillingEventID = events[id].BillingEventID
      /\ \A c \in Callers :
           ( /\ svc[c].op = "TrackEvent" /\ svc[c].pc # "returned"
             /\ svc'[c].pc = "returned" /\ svc'[c].err = Ok ) =>
           Cardinality(DOMAIN events') = Cardinality(DOMAIN events) + 1 ]_vars

====
